---- MODULE Spec2Model ----
(***************************************************************************)
(* State-machine model of the CarV AI Telegram bot:                        *)
(*   - RateLimiter (utils/rateLimiter.js): sliding-window request counter  *)
(*   - AIService conversation history (services/aiService.js)              *)
(*   - MessageHandler.handleMessage (handlers/messageHandler.js) running   *)
(*     on the single-threaded event loop                                   *)
(*   - startup and shutdown (index.js, config/config.js)                   *)
(*   - NewsService, InvestmentAnalyzer and the keyword routing of          *)
(*     AIService.generateResponse                                          *)
(* Spec         : the RateLimiter driven through its exported methods      *)
(* SpecStore    : the conversation history driven through its methods      *)
(* SpecBot      : inbound messages handled by MessageHandler               *)
(* SpecLife     : the process from startup to exit                         *)
(* SpecSplit    : splitMessage as a function of its arguments              *)
(* SpecNews     : news, investment analysis and generateResponse           *)
(* SpecAnalyzer : generateRecommendations as a function of the articles    *)
(* SpecServices : the RateLimiter and the conversation history together    *)
(***************************************************************************)
EXTENDS Integers, Sequences, FiniteSets, TLC

VARIABLES
    env,                 \* process.env: RATE_LIMIT_PER_USER, RATE_LIMIT_WINDOW_MS
    now,                 \* Date.now()
    userRequests,        \* RateLimiter.userRequests : Map userId -> [timestamps]
    nextSweep,           \* earliest time the setInterval(cleanup) timer is due
    recorded,            \* history variable: every timestamp recordRequest pushed
    ret,                 \* the last call and the value it returned
    conversationHistory, \* AIService.conversationHistory : Map userId -> [turns]
    appended,            \* history variable: exchanges appended since the entry was created
    nCalls,              \* number of updateConversationHistory calls made so far
    pc,                  \* position of each message handler
    msg,                 \* the message each handler was called with
    running,             \* the handler whose synchronous segment holds the event loop
    nMsgs,               \* number of 'message' events emitted so far
    recordOrder,         \* history variable: message ids in the order they were recorded
    sent,                \* what each handler passed to bot.sendMessage, in order
    phase,               \* position of the process: index.js from load to exit
    isRunning,           \* CarVAIBot.isRunning
    exitCode,            \* the status process.exit was called with, -1 while alive
    cleanupInterval,     \* the timer of RateLimiter.cleanupInterval: "armed" or "cleared"
    logged,              \* what startup wrote: the error thrown and the warning
    stops,               \* history variable: number of RateLimiter.stop() calls so far
    cache,               \* NewsService.cache : Map key -> [data, timestamp]
    requests,            \* history variable: the headers of the GETs sent to the CARV API
    tasks,               \* the assets a getAssetRecommendation call started by
                         \* generateRecommendations is still running for
    args                 \* the arguments of the function under check

rlState == <<env, now, userRequests, nextSweep, recorded>>
rlVars == <<env, now, userRequests, nextSweep, recorded, ret>>
storeVars == <<conversationHistory, appended, nCalls>>
botVars == <<pc, msg, running, nMsgs, recordOrder, sent>>
lifeVars == <<phase, isRunning, exitCode, cleanupInterval, logged, stops>>
newsVars == <<cache, requests, tasks>>
vars == <<env, now, userRequests, nextSweep, recorded, ret,
          conversationHistory, appended, nCalls,
          pc, msg, running, nMsgs, recordOrder, sent,
          phase, isRunning, exitCode, cleanupInterval, logged, stops,
          cache, requests, tasks, args>>

----------------------------------------------------------------------------
(* Bounds of the model *)

MaxTime == 3        \* the clock runs from 0 to MaxTime
MaxReq == 3         \* recordRequest calls, all users together
MaxAppends == 11    \* updateConversationHistory calls
MaxMsgs == 2        \* inbound messages
MaxBotTime == 1     \* the clock runs from 0 to MaxBotTime while messages are handled
MaxStops == 2       \* RateLimiter.stop() calls
MaxLen == 5         \* characters in a message handed to splitMessage
MaxPartLen == 3     \* the maxLength handed to splitMessage is in 1..MaxPartLen
MaxChats == 1       \* exchanges generateResponse stores
MaxNewsTicks == 1   \* times five minutes pass while news are requested
MaxArticles == 2    \* articles in a list handed to generateRecommendations
MaxSvcTime == 1     \* the clock runs from 0 to MaxSvcTime in SpecServices
MaxSvcReq == 1      \* recordRequest calls in SpecServices
MaxSvcAppends == 2  \* updateConversationHistory calls in SpecServices

Users == {"u1", "u2"}

----------------------------------------------------------------------------
(* Configuration: config.js *)

Unset == <<>>       \* an environment variable that is not set (parseInt gives NaN)

DefaultRateLimitPerUser == 10
DefaultRateLimitWindowMs == 60000

\* parseInt(process.env.X) || dflt : NaN and 0 are falsy and give the default
ParseIntOr(v, dflt) == IF v = Unset \/ v[1] = 0 THEN dflt ELSE v[1]

\* config.bot.rateLimitPerUser
L == ParseIntOr(env.limit, DefaultRateLimitPerUser)

\* config.bot.rateLimitWindowMs
W == ParseIntOr(env.window, DefaultRateLimitWindowMs)

\* the environments the model starts from
EnvConfigs ==
    { [limit |-> <<1>>, window |-> <<2>>],
      [limit |-> <<2>>, window |-> <<3>>],
      [limit |-> <<0>>, window |-> Unset],
      [limit |-> <<-1>>, window |-> <<2>>],
      [limit |-> <<2>>, window |-> <<-1>>] }

----------------------------------------------------------------------------
(* JavaScript Map and Array helpers *)

MapHas(m, k) == k \in DOMAIN m

\* m.get(k) || dflt
MapGetOr(m, k, dflt) == IF k \in DOMAIN m THEN m[k] ELSE dflt

\* m.set(k, v)
MapSet(m, k, v) == [x \in (DOMAIN m) \cup {k} |-> IF x = k THEN v ELSE m[x]]

\* m.delete(k)
MapDelete(m, k) == [x \in (DOMAIN m) \ {k} |-> m[x]]

\* Math.max(a, b)
Max(a, b) == IF a >= b THEN a ELSE b

\* Math.min(...s) for a non-empty array
RECURSIVE MinOf(_)
MinOf(s) == IF Len(s) = 1 THEN s[1]
            ELSE LET m == MinOf(Tail(s)) IN IF s[1] <= m THEN s[1] ELSE m

\* array.reduce((total, x) => total + x.length, 0) over the values of a map
RECURSIVE SumLen(_, _)
SumLen(m, ks) == IF ks = {} THEN 0
                 ELSE LET k == CHOOSE x \in ks : TRUE
                      IN Len(m[k]) + SumLen(m, ks \ {k})

----------------------------------------------------------------------------
(* RateLimiter: utils/rateLimiter.js *)

\* InWindow with <= for <: a timestamp aged exactly W is kept
InWindowInclusive(t, ts) == t - ts <= W

\* the filter predicate of isRateLimited and getRemainingRequests
InWindow(t, ts) == t - ts < W

\* the filter predicate of cleanup: timestamp > cutoff, cutoff = now - W
AfterCutoff(t, ts) == ts > t - W

\* userRequests.filter(timestamp => now - timestamp < W)
ValidRequests(reqs) == SelectSeq(reqs, LAMBDA ts : InWindow(now, ts))

\* LimitReached with > for >=
LimitReachedStrict(valid) == Len(valid) > L

\* value returned by isRateLimited given the filtered array
LimitReached(valid) == Len(valid) >= L

\* RemainingRequests without the filter: counts every stored timestamp
RemainingRequestsStored(u) ==
    Max(0, L - Len(MapGetOr(userRequests, u, <<>>)))

\* value returned by getRemainingRequests(u)
RemainingRequests(u) ==
    Max(0, L - Len(ValidRequests(MapGetOr(userRequests, u, <<>>))))

\* value returned by getTimeUntilReset(u)
TimeUntilReset(u) ==
    LET reqs == MapGetOr(userRequests, u, <<>>)
    IN IF Len(reqs) = 0 THEN 0
       ELSE Max(0, (MinOf(reqs) + W) - now)

\* value returned by getStats()
Stats ==
    [activeUsers |-> Cardinality(DOMAIN userRequests),
     totalRequests |-> SumLen(userRequests, DOMAIN userRequests)]

\* CleanedUp without the delete: an emptied entry stays in the map
CleanedUpKeepsEmpty(m) ==
    [u \in DOMAIN m |-> SelectSeq(m[u], LAMBDA ts : AfterCutoff(now, ts))]

\* the map cleanup() leaves behind
CleanedUp(m) ==
    LET kept(u) == SelectSeq(m[u], LAMBDA ts : AfterCutoff(now, ts))
    IN [u \in {x \in DOMAIN m : Len(kept(x)) > 0} |-> kept(u)]

\* setInterval(fn, delay): a delay below 1 is set to 1
TimerDelay == IF W < 1 THEN 1 ELSE W

NoCall == [op |-> "none", user |-> "-", val |-> 0]

Call(op, u, v) == [op |-> op, user |-> u, val |-> v]

\* number of recordRequest calls made so far
NumRecorded == SumLen(recorded, Users)

IsRateLimited(u) ==
    LET valid == ValidRequests(MapGetOr(userRequests, u, <<>>))
    IN /\ userRequests' = MapSet(userRequests, u, valid)
       /\ ret' = Call("isRateLimited", u, LimitReached(valid))
       /\ UNCHANGED <<env, now, nextSweep, recorded>>

RecordRequest(u) ==
    /\ userRequests' = MapSet(userRequests, u,
                              Append(MapGetOr(userRequests, u, <<>>), now))
    /\ recorded' = [recorded EXCEPT ![u] = Append(@, now)]
    /\ ret' = Call("recordRequest", u, 0)
    /\ UNCHANGED <<env, now, nextSweep>>

GetRemainingRequests(u) ==
    /\ ret' = Call("getRemainingRequests", u, RemainingRequests(u))
    /\ UNCHANGED <<env, now, userRequests, nextSweep, recorded>>

GetTimeUntilReset(u) ==
    /\ ret' = Call("getTimeUntilReset", u, TimeUntilReset(u))
    /\ UNCHANGED <<env, now, userRequests, nextSweep, recorded>>

GetStats ==
    /\ ret' = Call("getStats", "-", Stats)
    /\ UNCHANGED <<env, now, userRequests, nextSweep, recorded>>

\* the setInterval callback of the constructor
Cleanup ==
    /\ now >= nextSweep
    /\ userRequests' = CleanedUp(userRequests)
    /\ nextSweep' = now + TimerDelay
    /\ ret' = Call("cleanup", "-", Stats.activeUsers)
    /\ UNCHANGED <<env, now, recorded>>

\* the wall clock advances
Tick ==
    /\ now < MaxTime
    /\ now' = now + 1
    /\ ret' = NoCall
    /\ UNCHANGED <<env, userRequests, nextSweep, recorded>>

----------------------------------------------------------------------------
(* AIService conversation history: services/aiService.js *)

maxHistoryLength == 10

Turn(role, content) == [role |-> role, content |-> content]

\* array.slice(-n) for n > 0: the last n elements
SliceLast(s, n) == IF Len(s) <= n THEN s ELSE SubSeq(s, Len(s) - n + 1, Len(s))

\* SpliceFront removing at the wrong end: the last k elements removed
SpliceBack(s, k) == SubSeq(s, 1, Len(s) - k)

\* array after splice(0, k): the first k elements removed
SpliceFront(s, k) == SubSeq(s, k + 1, Len(s))

\* value returned by getConversationHistory(u)
ConversationHistoryOf(u) ==
    SliceLast(MapGetOr(conversationHistory, u, <<>>), maxHistoryLength * 2)

\* UpdatedHistory with the exchange pushed onto the array generateResponse
\* read before it awaited the provider, taken to be empty, instead of onto
\* the array stored at completion time
UpdatedHistoryFromSnapshot(u, userMessage, assistantResponse) ==
    << Turn("user", userMessage), Turn("assistant", assistantResponse) >>

\* the array updateConversationHistory stores for u
UpdatedHistory(u, userMessage, assistantResponse) ==
    LET history == ConversationHistoryOf(u) \o
                   << Turn("user", userMessage),
                      Turn("assistant", assistantResponse) >>
        maxExchanges == maxHistoryLength
    IN IF Len(history) > maxExchanges * 2
       THEN SpliceFront(history, Len(history) - maxExchanges * 2)
       ELSE history

\* value returned by getConversationStats()
ConversationStats ==
    [activeUsers |-> Cardinality(DOMAIN conversationHistory),
     totalConversations |-> SumLen(conversationHistory, DOMAIN conversationHistory)]

GetConversationHistory(u) ==
    /\ ret' = Call("getConversationHistory", u, ConversationHistoryOf(u))
    /\ UNCHANGED <<conversationHistory, appended, nCalls>>

UpdateConversationHistory(u, userMessage, assistantResponse) ==
    /\ conversationHistory' =
          MapSet(conversationHistory, u, UpdatedHistory(u, userMessage, assistantResponse))
    /\ appended' = [appended EXCEPT ![u] = Append(@, <<userMessage, assistantResponse>>)]
    /\ nCalls' = nCalls + 1

\* ClearConversationHistory that empties the entry instead of deleting it
ClearKeepsEntry(u) ==
    /\ conversationHistory' = MapSet(conversationHistory, u, <<>>)
    /\ appended' = [appended EXCEPT ![u] = <<>>]
    /\ UNCHANGED nCalls

\* ClearConversationHistory emptying the whole map: conversationHistory.clear()
ClearEveryHistory(u) ==
    /\ conversationHistory' = [x \in {} |-> <<>>]
    /\ appended' = [v \in Users |-> <<>>]
    /\ UNCHANGED nCalls

\* this.conversationHistory.delete(userId)
ClearConversationHistory(u) ==
    /\ conversationHistory' = MapDelete(conversationHistory, u)
    /\ appended' = [appended EXCEPT ![u] = <<>>]
    /\ UNCHANGED nCalls

GetConversationStats ==
    /\ ret' = Call("getConversationStats", "-", ConversationStats)
    /\ UNCHANGED <<conversationHistory, appended, nCalls>>

\* the texts of the k-th exchange handed to updateConversationHistory
MessageText(k) == <<"msg", k>>
ReplyText(k) == <<"reply", k>>

StoreAppend(u) ==
    /\ nCalls < MaxAppends
    /\ UpdateConversationHistory(u, MessageText(nCalls + 1), ReplyText(nCalls + 1))
    /\ ret' = Call("updateConversationHistory", u, 0)

StoreClear(u) ==
    /\ ClearConversationHistory(u)
    /\ ret' = Call("clearConversationHistory", u, MapHas(conversationHistory, u))


----------------------------------------------------------------------------
(* Initial states and specifications *)

EmptyMap == [x \in {} |-> <<>>]

\* nothing written by startup
NoLog == [error |-> <<>>, warned |-> FALSE]

InitRL(configs) ==
    /\ env \in configs
    /\ now = 0
    /\ userRequests = EmptyMap
    /\ nextSweep = TimerDelay
    /\ recorded = [u \in Users |-> <<>>]
    /\ ret = NoCall

InitStore ==
    /\ conversationHistory = EmptyMap
    /\ appended = [u \in Users |-> <<>>]
    /\ nCalls = 0

InitBot ==
    /\ pc = [h \in 1..MaxMsgs |-> "idle"]
    /\ msg = [h \in 1..MaxMsgs |-> [user |-> "-", kind |-> "-"]]
    /\ running = 0
    /\ nMsgs = 0
    /\ recordOrder = <<>>
    /\ sent = [h \in 1..MaxMsgs |-> <<>>]

\* the process is up: index.js has started the bot
InitRunning ==
    /\ phase = "running"
    /\ isRunning = TRUE
    /\ exitCode = -1
    /\ cleanupInterval = "armed"
    /\ logged = NoLog
    /\ stops = 0

\* nothing fetched from the CARV API yet
InitNews ==
    /\ cache = EmptyMap
    /\ requests = {}
    /\ tasks = {}

InitRest == InitRunning /\ InitNews /\ args = <<>>

Init == InitRL(EnvConfigs) /\ InitStore /\ InitBot /\ InitRest

Next ==
    \/ \E u \in Users : IsRateLimited(u) /\ UNCHANGED <<storeVars, botVars, lifeVars, newsVars, args>>
    \/ \E u \in Users : /\ NumRecorded < MaxReq
                         /\ RecordRequest(u)
                         /\ UNCHANGED <<storeVars, botVars, lifeVars, newsVars, args>>
    \/ \E u \in Users : GetRemainingRequests(u) /\ UNCHANGED <<storeVars, botVars, lifeVars, newsVars, args>>
    \/ \E u \in Users : GetTimeUntilReset(u) /\ UNCHANGED <<storeVars, botVars, lifeVars, newsVars, args>>
    \/ GetStats /\ UNCHANGED <<storeVars, botVars, lifeVars, newsVars, args>>
    \/ Cleanup /\ UNCHANGED <<storeVars, botVars, lifeVars, newsVars, args>>
    \/ Tick /\ UNCHANGED <<storeVars, botVars, lifeVars, newsVars, args>>

Spec == Init /\ [][Next]_vars

DefaultEnv == {[limit |-> Unset, window |-> Unset]}

InitStoreSpec == InitRL(DefaultEnv) /\ InitStore /\ InitBot /\ InitRest

NextStore ==
    \/ \E u \in Users : StoreAppend(u) /\ UNCHANGED <<rlState, botVars, lifeVars, newsVars, args>>
    \/ \E u \in Users : StoreClear(u) /\ UNCHANGED <<rlState, botVars, lifeVars, newsVars, args>>
    \/ \E u \in Users : GetConversationHistory(u) /\ UNCHANGED <<rlState, botVars, lifeVars, newsVars, args>>
    \/ GetConversationStats /\ UNCHANGED <<rlState, botVars, lifeVars, newsVars, args>>

SpecStore == InitStoreSpec /\ [][NextStore]_vars

\* the methods of both services called in any order on any user, with the
\* sweep timer and the clock
ServicesEnvConfigs ==
    { [limit |-> <<1>>, window |-> <<1>>],
      [limit |-> <<2>>, window |-> <<2>>] }

InitServicesSpec == InitRL(ServicesEnvConfigs) /\ InitStore /\ InitBot /\ InitRest

NextServices ==
    \/ \E u \in Users : IsRateLimited(u) /\ UNCHANGED <<storeVars, botVars, lifeVars, newsVars, args>>
    \/ \E u \in Users : /\ NumRecorded < MaxSvcReq
                         /\ RecordRequest(u)
                         /\ UNCHANGED <<storeVars, botVars, lifeVars, newsVars, args>>
    \/ \E u \in Users : GetRemainingRequests(u) /\ UNCHANGED <<storeVars, botVars, lifeVars, newsVars, args>>
    \/ \E u \in Users : GetTimeUntilReset(u) /\ UNCHANGED <<storeVars, botVars, lifeVars, newsVars, args>>
    \/ GetStats /\ UNCHANGED <<storeVars, botVars, lifeVars, newsVars, args>>
    \/ Cleanup /\ UNCHANGED <<storeVars, botVars, lifeVars, newsVars, args>>
    \/ now < MaxSvcTime /\ Tick /\ UNCHANGED <<storeVars, botVars, lifeVars, newsVars, args>>
    \/ \E u \in Users : /\ nCalls < MaxSvcAppends
                         /\ StoreAppend(u)
                         /\ UNCHANGED <<rlState, botVars, lifeVars, newsVars, args>>
    \/ \E u \in Users : StoreClear(u) /\ UNCHANGED <<rlState, botVars, lifeVars, newsVars, args>>
    \/ \E u \in Users : GetConversationHistory(u) /\ UNCHANGED <<rlState, botVars, lifeVars, newsVars, args>>
    \/ GetConversationStats /\ UNCHANGED <<rlState, botVars, lifeVars, newsVars, args>>

SpecServices == InitServicesSpec /\ [][NextServices]_vars

----------------------------------------------------------------------------
(* MessageHandler on the event loop: handlers/messageHandler.js, index.js *)

Handlers == 1..MaxMsgs

\* what handleMessage does with an accepted message:
\*   "chat"  text without a leading "/": handleAIMessage
\*   "clear" the /clear command, "stats" the /stats command
\*   "other" a non-text message or any other command: one reply is sent
Kinds == {"chat", "clear", "stats", "other"}

\* a synchronous segment of handler h can run: h holds the event loop, or the
\* loop is free and h's continuation takes it
CanRun(h) == running = h \/ running = 0

\* the event loop is free: the running handler reached an await or returned
Free == running = 0

\* a message passed to bot.sendMessage: the throttling notice, the AI reply,
\* the apology of handleAIMessage, the /clear and /stats answers, and "info"
\* for the fixed texts of the other commands
Outgoing(kind) == [kind |-> kind, wait |-> 0]

\* Math.ceil(timeUntilReset / 60000) for timeUntilReset >= 0
MinutesUntilReset(t) == (t + 59999) \div 60000

\* the rate-limit notice: "Please wait ${minutesUntilReset} minute(s) ..."
Notice(minutes) == [kind |-> "notice", wait |-> minutes]

\* bot.on('message', ...) calls handleMessage(msg), which starts running
Receive(u, k) ==
    /\ Free
    /\ nMsgs < MaxMsgs
    /\ nMsgs' = nMsgs + 1
    /\ msg' = [msg EXCEPT ![nMsgs + 1] = [user |-> u, kind |-> k]]
    /\ pc' = [pc EXCEPT ![nMsgs + 1] = "check"]
    /\ running' = nMsgs + 1
    /\ ret' = NoCall
    /\ UNCHANGED <<rlState, storeVars, recordOrder, sent>>

\* HCheck with an await between the check and what follows it
HCheckThenAwait(h) ==
    /\ pc[h] = "check"
    /\ CanRun(h)
    /\ IsRateLimited(msg[h].user)
    /\ pc' = [pc EXCEPT ![h] = IF ret'.val THEN "limited" ELSE "record"]
    /\ running' = 0
    /\ UNCHANGED <<storeVars, msg, nMsgs, recordOrder, sent>>

\* if (rateLimiter.isRateLimited(userId))
HCheck(h) ==
    /\ pc[h] = "check"
    /\ CanRun(h)
    /\ IsRateLimited(msg[h].user)
    /\ pc' = [pc EXCEPT ![h] = IF ret'.val THEN "limited" ELSE "record"]
    /\ running' = h
    /\ UNCHANGED <<storeVars, msg, nMsgs, recordOrder, sent>>

\* HLimited without the return: the notice is sent and handleMessage goes on
\* to recordRequest
HLimitedFallsThrough(h) ==
    /\ pc[h] = "limited"
    /\ CanRun(h)
    /\ GetTimeUntilReset(msg[h].user)
    /\ sent' = [sent EXCEPT ![h] =
                   Append(@, Notice(MinutesUntilReset(TimeUntilReset(msg[h].user))))]
    /\ pc' = [pc EXCEPT ![h] = "record"]
    /\ running' = 0
    /\ UNCHANGED <<storeVars, msg, nMsgs, recordOrder>>

\* the rate-limited branch: getTimeUntilReset, then the throttling notice is
\* sent (await bot.sendMessage) and handleMessage returns
HLimited(h) ==
    /\ pc[h] = "limited"
    /\ CanRun(h)
    /\ GetTimeUntilReset(msg[h].user)
    /\ sent' = [sent EXCEPT ![h] =
                   Append(@, Notice(MinutesUntilReset(TimeUntilReset(msg[h].user))))]
    /\ pc' = [pc EXCEPT ![h] = "throttled"]
    /\ running' = 0
    /\ UNCHANGED <<storeVars, msg, nMsgs, recordOrder>>

\* HRecord without the recordRequest call: the message goes on to its
\* dispatch and no timestamp is pushed for its sender
HRecordSkipped(h) ==
    /\ pc[h] = "record"
    /\ CanRun(h)
    /\ recordOrder' = Append(recordOrder, h)
    /\ pc' = [pc EXCEPT ![h] = "dispatch"]
    /\ running' = h
    /\ ret' = Call("recordRequest", msg[h].user, 0)
    /\ UNCHANGED <<rlState, storeVars, msg, nMsgs, sent>>

\* rateLimiter.recordRequest(userId)
HRecord(h) ==
    /\ pc[h] = "record"
    /\ CanRun(h)
    /\ RecordRequest(msg[h].user)
    /\ recordOrder' = Append(recordOrder, h)
    /\ pc' = [pc EXCEPT ![h] = "dispatch"]
    /\ running' = h
    /\ UNCHANGED <<storeVars, msg, nMsgs, sent>>

\* handleAIMessage: await bot.sendChatAction(chatId, 'typing')
HDispatchChat(h) ==
    /\ pc[h] = "dispatch" /\ msg[h].kind = "chat"
    /\ CanRun(h)
    /\ pc' = [pc EXCEPT ![h] = "awaitTyping"]
    /\ running' = 0
    /\ ret' = NoCall
    /\ UNCHANGED <<rlState, storeVars, msg, nMsgs, recordOrder, sent>>

\* handleClearCommand: clearConversationHistory, then await bot.sendMessage
HDispatchClear(h) ==
    /\ pc[h] = "dispatch" /\ msg[h].kind = "clear"
    /\ CanRun(h)
    /\ ClearConversationHistory(msg[h].user)
    /\ sent' = [sent EXCEPT ![h] = Append(@, Outgoing("cleared"))]
    /\ pc' = [pc EXCEPT ![h] = "replied"]
    /\ running' = 0
    /\ ret' = Call("clearConversationHistory", msg[h].user,
                   MapHas(conversationHistory, msg[h].user))
    /\ UNCHANGED <<rlState, msg, nMsgs, recordOrder>>

\* handleStatsCommand: const remainingRequests = getRemainingRequests(userId)
HStatsRemaining(h) ==
    /\ pc[h] = "dispatch" /\ msg[h].kind = "stats"
    /\ CanRun(h)
    /\ GetRemainingRequests(msg[h].user)
    /\ pc' = [pc EXCEPT ![h] = "statsReset"]
    /\ running' = h
    /\ UNCHANGED <<storeVars, msg, nMsgs, recordOrder, sent>>

\* handleStatsCommand: getTimeUntilReset(userId), then await bot.sendMessage
HStatsReset(h) ==
    /\ pc[h] = "statsReset"
    /\ CanRun(h)
    /\ GetTimeUntilReset(msg[h].user)
    /\ sent' = [sent EXCEPT ![h] = Append(@, Outgoing("stats"))]
    /\ pc' = [pc EXCEPT ![h] = "replied"]
    /\ running' = 0
    /\ UNCHANGED <<storeVars, msg, nMsgs, recordOrder>>

\* handleNonTextMessage and the commands that only send a message
HDispatchOther(h) ==
    /\ pc[h] = "dispatch" /\ msg[h].kind = "other"
    /\ CanRun(h)
    /\ sent' = [sent EXCEPT ![h] = Append(@, Outgoing("info"))]
    /\ pc' = [pc EXCEPT ![h] = "replied"]
    /\ running' = 0
    /\ ret' = NoCall
    /\ UNCHANGED <<rlState, storeVars, msg, nMsgs, recordOrder>>

\* sendChatAction resolved: generateResponse reads the history and awaits
\* this.provider.generateResponse(messages, ...)
HTypingDone(h) ==
    /\ pc[h] = "awaitTyping"
    /\ Free
    /\ pc' = [pc EXCEPT ![h] = "awaitProvider"]
    /\ ret' = Call("getConversationHistory", msg[h].user,
                   ConversationHistoryOf(msg[h].user))
    /\ UNCHANGED <<rlState, storeVars, msg, running, nMsgs, recordOrder, sent>>

\* sendChatAction rejected: the catch of handleAIMessage sends the apology
HTypingFailed(h) ==
    /\ pc[h] = "awaitTyping"
    /\ Free
    /\ sent' = [sent EXCEPT ![h] = Append(@, Outgoing("apology"))]
    /\ pc' = [pc EXCEPT ![h] = "replied"]
    /\ ret' = NoCall
    /\ UNCHANGED <<rlState, storeVars, msg, running, nMsgs, recordOrder>>

\* the provider answered: updateConversationHistory(userId, message, response),
\* then the reply is sent
HProviderDone(h) ==
    /\ pc[h] = "awaitProvider"
    /\ Free
    /\ UpdateConversationHistory(msg[h].user, MessageText(h), ReplyText(h))
    /\ sent' = [sent EXCEPT ![h] = Append(@, Outgoing("reply"))]
    /\ pc' = [pc EXCEPT ![h] = "replied"]
    /\ ret' = Call("updateConversationHistory", msg[h].user, 0)
    /\ UNCHANGED <<rlState, msg, running, nMsgs, recordOrder>>

\* HProviderFailed with the user turn stored before the provider is called,
\* so that it stays in the history when the provider fails
HProviderFailedKeepsTurn(h) ==
    /\ pc[h] = "awaitProvider"
    /\ Free
    /\ conversationHistory' =
          MapSet(conversationHistory, msg[h].user,
                 Append(ConversationHistoryOf(msg[h].user), Turn("user", MessageText(h))))
    /\ sent' = [sent EXCEPT ![h] = Append(@, Outgoing("apology"))]
    /\ pc' = [pc EXCEPT ![h] = "replied"]
    /\ ret' = Call("generateResponse", msg[h].user, "error")
    /\ UNCHANGED <<rlState, appended, nCalls, msg, running, nMsgs, recordOrder>>

\* the provider failed: generateResponse throws, the catch of handleAIMessage
\* sends the apology
HProviderFailed(h) ==
    /\ pc[h] = "awaitProvider"
    /\ Free
    /\ sent' = [sent EXCEPT ![h] = Append(@, Outgoing("apology"))]
    /\ pc' = [pc EXCEPT ![h] = "replied"]
    /\ ret' = Call("generateResponse", msg[h].user, "error")
    /\ UNCHANGED <<rlState, storeVars, msg, running, nMsgs, recordOrder>>

\* the setInterval callback runs when the event loop is free
SweepTimer ==
    /\ Free
    /\ Cleanup
    /\ UNCHANGED <<storeVars, botVars>>

BotEnvConfigs ==
    { [limit |-> <<1>>, window |-> <<1>>],
      [limit |-> <<2>>, window |-> <<2>>],
      [limit |-> <<-1>>, window |-> <<1>>] }

InitBotSpec == InitRL(BotEnvConfigs) /\ InitStore /\ InitBot /\ InitRest

NextBot ==
    \/ \E u \in Users, k \in Kinds : Receive(u, k) /\ UNCHANGED <<lifeVars, newsVars, args>>
    \/ \E h \in Handlers : HCheck(h) /\ UNCHANGED <<lifeVars, newsVars, args>>
    \/ \E h \in Handlers : HLimited(h) /\ UNCHANGED <<lifeVars, newsVars, args>>
    \/ \E h \in Handlers : HRecord(h) /\ UNCHANGED <<lifeVars, newsVars, args>>
    \/ \E h \in Handlers : HDispatchChat(h) /\ UNCHANGED <<lifeVars, newsVars, args>>
    \/ \E h \in Handlers : HDispatchClear(h) /\ UNCHANGED <<lifeVars, newsVars, args>>
    \/ \E h \in Handlers : HStatsRemaining(h) /\ UNCHANGED <<lifeVars, newsVars, args>>
    \/ \E h \in Handlers : HStatsReset(h) /\ UNCHANGED <<lifeVars, newsVars, args>>
    \/ \E h \in Handlers : HDispatchOther(h) /\ UNCHANGED <<lifeVars, newsVars, args>>
    \/ \E h \in Handlers : HTypingDone(h) /\ UNCHANGED <<lifeVars, newsVars, args>>
    \/ \E h \in Handlers : HTypingFailed(h) /\ UNCHANGED <<lifeVars, newsVars, args>>
    \/ \E h \in Handlers : HProviderDone(h) /\ UNCHANGED <<lifeVars, newsVars, args>>
    \/ \E h \in Handlers : HProviderFailed(h) /\ UNCHANGED <<lifeVars, newsVars, args>>
    \/ SweepTimer /\ UNCHANGED <<lifeVars, newsVars, args>>
    \/ now < MaxBotTime /\ Tick /\ UNCHANGED <<storeVars, botVars, lifeVars, newsVars, args>>

SpecBot == InitBotSpec /\ [][NextBot]_vars

----------------------------------------------------------------------------
(* Process lifecycle: index.js, config.js validateConfig, RateLimiter.stop *)

\* !process.env[key]: the variable is unset or the empty string
Falsy(v) == v = Unset \/ v[1] = ""

\* process.env[key]
EnvVar(key) ==
    CASE key = "TELEGRAM_BOT_TOKEN" -> env.telegramToken
      [] key = "OPENAI_API_KEY" -> env.openaiKey
      [] key = "CARV_AUTH_TOKEN" -> env.carvToken

\* const required = ['TELEGRAM_BOT_TOKEN', 'OPENAI_API_KEY']
Required == <<"TELEGRAM_BOT_TOKEN", "OPENAI_API_KEY">>

\* MissingRequired that reports only the first missing variable
MissingRequiredFirstOnly ==
    LET all == SelectSeq(Required, LAMBDA key : Falsy(EnvVar(key)))
    IN IF all = <<>> THEN <<>> ELSE <<all[1]>>

\* required.filter(key => !process.env[key])
MissingRequired == SelectSeq(Required, LAMBDA key : Falsy(EnvVar(key)))

\* the process is alive and its event loop dispatches callbacks: from the
\* first await of initialize() until process.exit
Alive == phase \in {"settingCommands", "running"}

\* validateConfig throws: initialize rethrows, start catches and calls
\* process.exit(1)
StartFails ==
    /\ phase = "load"
    /\ MissingRequired # <<>>
    /\ logged' = [error |-> MissingRequired, warned |-> FALSE]
    /\ phase' = "exited"
    /\ exitCode' = 1
    /\ ret' = Call("validateConfig", "-", FALSE)
    /\ UNCHANGED <<rlState, isRunning, cleanupInterval, stops>>

\* validateConfig passes (warning when CARV_AUTH_TOKEN is missing); the bot
\* is created with polling, the handlers are registered and initialize()
\* awaits setBotCommands()
StartInitialize ==
    /\ phase = "load"
    /\ MissingRequired = <<>>
    /\ logged' = [error |-> <<>>, warned |-> Falsy(EnvVar("CARV_AUTH_TOKEN"))]
    /\ phase' = "settingCommands"
    /\ ret' = Call("validateConfig", "-", TRUE)
    /\ UNCHANGED <<rlState, isRunning, exitCode, cleanupInterval, stops>>

\* setBotCommands() settled (it catches its own failure): this.isRunning = true
SetCommandsDone ==
    /\ phase = "settingCommands"
    /\ isRunning' = TRUE
    /\ phase' = "running"
    /\ ret' = Call("setBotCommands", "-", 0)
    /\ UNCHANGED <<rlState, exitCode, cleanupInterval, logged, stops>>

\* Stopped that leaves the timer armed
StoppedKeepsTimer ==
    /\ cleanupInterval' = cleanupInterval
    /\ stops' = stops + 1

\* RateLimiter.stop(): clearInterval(this.cleanupInterval)
Stopped ==
    /\ cleanupInterval' = "cleared"
    /\ stops' = stops + 1

\* stop() called on the exported limiter while the process is alive
Stop ==
    /\ Alive
    /\ stops < MaxStops
    /\ Stopped
    /\ ret' = Call("stop", "-", 0)
    /\ UNCHANGED <<rlState, phase, isRunning, exitCode, logged>>

\* SIGINT or SIGTERM while isRunning is false: shutdown() returns at once
ShutdownNotRunning ==
    /\ Alive
    /\ ~isRunning
    /\ ret' = Call("shutdown", "-", FALSE)
    /\ UNCHANGED <<rlState, lifeVars>>

\* SIGINT or SIGTERM while isRunning: rateLimiter.stop(), bot.stopPolling(),
\* isRunning = false, process.exit(0)
Shutdown ==
    /\ Alive
    /\ isRunning
    /\ Stopped
    /\ isRunning' = FALSE
    /\ phase' = "exited"
    /\ exitCode' = 0
    /\ ret' = Call("shutdown", "-", TRUE)
    /\ UNCHANGED <<rlState, logged>>

\* the setInterval callback runs while the timer is armed
LifeSweep ==
    /\ Alive
    /\ cleanupInterval = "armed"
    /\ Cleanup
    /\ UNCHANGED lifeVars

\* a message arrives: handleMessage runs isRateLimited and, when the user is
\* not limited, recordRequest in the same synchronous segment
LifeMessage(u) ==
    LET valid == ValidRequests(MapGetOr(userRequests, u, <<>>))
        limited == LimitReached(valid)
    IN /\ Alive
       /\ NumRecorded < MaxReq
       /\ userRequests' = MapSet(userRequests, u,
                                 IF limited THEN valid ELSE Append(valid, now))
       /\ recorded' = IF limited THEN recorded
                      ELSE [recorded EXCEPT ![u] = Append(@, now)]
       /\ ret' = Call("isRateLimited", u, limited)
       /\ UNCHANGED <<env, now, nextSweep, lifeVars>>

LifeTick ==
    /\ Alive
    /\ now < MaxBotTime
    /\ Tick
    /\ UNCHANGED lifeVars

\* the environments the process is started in
LifeEnvConfigs ==
    [ limit : {<<1>>, <<-1>>},
      window : {<<1>>, <<-1>>},
      telegramToken : {Unset, <<"">>, <<"t">>},
      openaiKey : {Unset, <<"k">>},
      carvToken : {Unset, <<"c">>} ]

\* index.js has been loaded (the limiter's timer is armed), start() not yet run
InitLife ==
    /\ phase = "load"
    /\ isRunning = FALSE
    /\ exitCode = -1
    /\ cleanupInterval = "armed"
    /\ logged = NoLog
    /\ stops = 0

InitLifeSpec ==
    InitRL(LifeEnvConfigs) /\ InitStore /\ InitBot /\ InitLife /\ InitNews /\ args = <<>>

NextLife ==
    \/ StartFails /\ UNCHANGED <<storeVars, botVars, newsVars, args>>
    \/ StartInitialize /\ UNCHANGED <<storeVars, botVars, newsVars, args>>
    \/ SetCommandsDone /\ UNCHANGED <<storeVars, botVars, newsVars, args>>
    \/ Stop /\ UNCHANGED <<storeVars, botVars, newsVars, args>>
    \/ ShutdownNotRunning /\ UNCHANGED <<storeVars, botVars, newsVars, args>>
    \/ Shutdown /\ UNCHANGED <<storeVars, botVars, newsVars, args>>
    \/ LifeSweep /\ UNCHANGED <<storeVars, botVars, newsVars, args>>
    \/ \E u \in Users : LifeMessage(u) /\ UNCHANGED <<storeVars, botVars, newsVars, args>>
    \/ LifeTick /\ UNCHANGED <<storeVars, botVars, newsVars, args>>

SpecLife == InitLifeSpec /\ [][NextLife]_vars

\* start() runs on: validateConfig returns or throws, and the awaited
\* setBotCommands() settles
LifeStartup ==
    /\ StartFails \/ StartInitialize \/ SetCommandsDone
    /\ UNCHANGED <<storeVars, botVars, newsVars, args>>

\* SpecLife in which startup is not delayed for ever; signals, messages and
\* the clock are events of the environment and carry no fairness
SpecLifeFair == SpecLife /\ WF_vars(LifeStartup)

----------------------------------------------------------------------------
(* MessageHandler.splitMessage: handlers/messageHandler.js *)

\* the characters messages are made of: a letter, the space and the full stop
Chars == {"a", " ", "."}

\* the non-empty strings of at most n characters
StringsUpTo(n) == UNION {[1..k -> Chars] : k \in 1..n}

\* String.prototype.indexOf(sep): the first position where sep starts, 0 if none
IndexOf(str, sep) ==
    LET hits == {i \in 1..(Len(str) - Len(sep) + 1) :
                    SubSeq(str, i, i + Len(sep) - 1) = sep}
    IN IF hits = {} THEN 0 ELSE CHOOSE i \in hits : \A j \in hits : i <= j

\* String.prototype.split(sep) for a non-empty separator
RECURSIVE Split(_, _)
Split(str, sep) ==
    LET i == IndexOf(str, sep)
    IN IF i = 0 THEN <<str>>
       ELSE <<SubSeq(str, 1, i - 1)>> \o Split(SubSeq(str, i + Len(sep), Len(str)), sep)

\* String.prototype.trim(): the whitespace at both ends removed
RECURSIVE Trim(_)
Trim(str) ==
    IF str = <<>> THEN str
    ELSE IF str[1] = " " THEN Trim(Tail(str))
    ELSE IF str[Len(str)] = " " THEN Trim(SubSeq(str, 1, Len(str) - 1))
    ELSE str

\* the loop over the words of a sentence that is too long: the parts pushed
\* and currentPart after the last word
RECURSIVE SplitWords(_, _, _, _)
SplitWords(words, parts, currentPart, maxLength) ==
    IF words = <<>> THEN [parts |-> parts, currentPart |-> currentPart]
    ELSE LET word == words[1]
         IN IF Len(currentPart \o word \o <<" ">>) > maxLength
            THEN IF currentPart # <<>>
                 THEN SplitWords(Tail(words), Append(parts, Trim(currentPart)),
                                 word \o <<" ">>, maxLength)
                 ELSE SplitWords(Tail(words), Append(parts, word), currentPart, maxLength)
            ELSE SplitWords(Tail(words), parts, currentPart \o word \o <<" ">>, maxLength)

\* the loop over the sentences
RECURSIVE SplitSentences(_, _, _, _)
SplitSentences(sentences, parts, currentPart, maxLength) ==
    IF sentences = <<>> THEN [parts |-> parts, currentPart |-> currentPart]
    ELSE LET sentence == sentences[1]
         IN IF Len(currentPart \o sentence) > maxLength
            THEN IF currentPart # <<>>
                 THEN SplitSentences(Tail(sentences), Append(parts, Trim(currentPart)),
                                     sentence \o <<".", " ">>, maxLength)
                 ELSE LET w == SplitWords(Split(sentence, <<" ">>), parts,
                                          currentPart, maxLength)
                      IN SplitSentences(Tail(sentences), w.parts,
                                        w.currentPart \o <<".", " ">>, maxLength)
            ELSE SplitSentences(Tail(sentences), parts,
                                currentPart \o sentence \o <<".", " ">>, maxLength)

\* value returned by splitMessage(message, maxLength)
SplitMessage(message, maxLength) ==
    IF Len(message) <= maxLength THEN <<message>>
    ELSE LET r == SplitSentences(Split(message, <<".", " ">>), <<>>, <<>>, maxLength)
         IN IF Trim(r.currentPart) # <<>>
            THEN Append(r.parts, Trim(r.currentPart))
            ELSE r.parts

\* this.splitMessage(response, config.bot.maxMessageLength)
CallSplitMessage ==
    /\ ret = NoCall
    /\ ret' = Call("splitMessage", "-", SplitMessage(args.message, args.maxLength))
    /\ UNCHANGED <<rlState, storeVars, botVars, lifeVars, newsVars, args>>

InitSplitSpec ==
    /\ InitRL(DefaultEnv) /\ InitStore /\ InitBot /\ InitRunning /\ InitNews
    /\ args \in [message : StringsUpTo(MaxLen), maxLength : 1..MaxPartLen]

NextSplit == CallSplitMessage

SpecSplit == InitSplitSpec /\ [][NextSplit]_vars

----------------------------------------------------------------------------
(* NewsService (services/newsService.js), InvestmentAnalyzer                *)
(* (services/investmentAnalyzer.js) and AIService.generateResponse with its *)
(* keyword interception (services/aiService.js)                             *)

\* this.cacheTimeout = 5 * 60 * 1000
cacheTimeout == 300000

CacheKey == "latest_news"

\* an absent value (null, undefined) is <<>>, a present value v is <<v>>
Null == <<>>

\* the groups of keywords a news article's title and card_text can contain
Topics == {"bitcoin", "ethereum", "markets"}

\* an article: the keyword groups found in its text and what
\* calculateSentiment returns for its text
Article(mentions, sentiment) == [mentions |-> mentions, sentiment |-> sentiment]

\* the article lists the CARV API can answer with
Feeds ==
    { <<>>,
      <<Article({"bitcoin"}, "positive")>>,
      <<Article({"bitcoin"}, "positive"), Article({"bitcoin"}, "negative")>>,
      <<Article({"bitcoin", "ethereum"}, "positive"),
        Article({"bitcoin", "ethereum"}, "positive")>>,
      <<Article({"markets"}, "negative"), Article({"ethereum"}, "positive")>> }

\* what a GET of the news endpoint can come to: an error or timeout, or
\* status 200 with code 0 and the articles
ApiOutcomes ==
    {[ok |-> FALSE, news |-> <<>>]} \cup {[ok |-> TRUE, news |-> f] : f \in Feeds}

\* the headers of the request getLatestNews(authToken) sends
Headers(authToken) ==
    LET headers == [x \in {"Content-Type"} |-> "application/json"]
    IN IF authToken # Null /\ ~Falsy(authToken)
       THEN MapSet(headers, "Authorization", authToken[1])
       ELSE headers

\* GetFromCache with <= for <: an entry aged exactly cacheTimeout is served
GetFromCacheInclusive(key) ==
    IF MapHas(cache, key) /\ now - cache[key].timestamp <= cacheTimeout
    THEN <<cache[key].data>>
    ELSE Null

\* getFromCache(key): the data when the entry is younger than cacheTimeout
GetFromCache(key) ==
    IF MapHas(cache, key) /\ now - cache[key].timestamp < cacheTimeout
    THEN <<cache[key].data>>
    ELSE Null

\* CachedOnError that serves only an entry that has not expired
CachedOnErrorFreshOnly == GetFromCache(CacheKey)

\* the catch block of getLatestNews: this.cache.get('latest_news'), used when
\* cached && cached.data (an array, truthy also when empty)
CachedOnError ==
    IF MapHas(cache, CacheKey) THEN <<cache[CacheKey].data>> ELSE Null

\* getLatestNews(authToken) when the API answers the request, if one is
\* sent, with api: whether it throws, the articles it returns, the cache it
\* leaves and the headers of the request it sent
LatestNews(authToken, api) ==
    LET cached == GetFromCache(CacheKey)
    IN IF cached # Null
       THEN [threw |-> FALSE, news |-> cached[1], cache |-> cache, sent |-> {}]
       ELSE IF api.ok
       THEN [threw |-> FALSE, news |-> api.news,
             cache |-> MapSet(cache, CacheKey, [data |-> api.news, timestamp |-> now]),
             sent |-> {Headers(authToken)}]
       ELSE IF CachedOnError # Null
       THEN [threw |-> FALSE, news |-> CachedOnError[1], cache |-> cache,
             sent |-> {Headers(authToken)}]
       ELSE [threw |-> TRUE, news |-> <<>>, cache |-> cache,
             sent |-> {Headers(authToken)}]

\* allNews.filter(article => keywords.some(...)) on what getLatestNews came to
FilterCategory(r, category) ==
    [r EXCEPT !.news = SelectSeq(r.news, LAMBDA a : category \in a.mentions)]

\* getNewsByCategory(category, authToken): the latest news filtered by the
\* keywords of the category
NewsByCategory(category, authToken, api) ==
    FilterCategory(LatestNews(authToken, api), category)

\* the keys of assetKeywords, in their order
AssetNames ==
    <<"bitcoin", "ethereum", "solana", "cardano", "polkadot",
      "chainlink", "uniswap", "aave", "defi", "nft">>

\* identifyAssets(text): is the asset among those the article mentions
MentionsAsset(a, asset) == asset \in a.mentions

\* number of articles that satisfy a condition
Count(news, Test(_)) == Len(SelectSeq(news, Test))

\* analysis.overall of analyzeNewsSentiment(news)
OverallData(news) ==
    [positive |-> Count(news, LAMBDA a : a.sentiment = "positive"),
     negative |-> Count(news, LAMBDA a : a.sentiment = "negative"),
     neutral |-> Count(news, LAMBDA a : a.sentiment = "neutral")]

\* analysis.assets[asset] of analyzeNewsSentiment(news)
AssetData(news, asset) ==
    [positive |-> Count(news, LAMBDA a : MentionsAsset(a, asset) /\ a.sentiment = "positive"),
     negative |-> Count(news, LAMBDA a : MentionsAsset(a, asset) /\ a.sentiment = "negative"),
     neutral |-> Count(news, LAMBDA a : MentionsAsset(a, asset) /\ a.sentiment = "neutral"),
     mentions |-> Count(news, LAMBDA a : MentionsAsset(a, asset))]

\* Object.entries(analysis.assets): the mentioned assets in the order in
\* which analyzeNewsSentiment created their entries
RECURSIVE AnalysedAssets(_, _)
AnalysedAssets(news, seen) ==
    IF news = <<>> THEN seen
    ELSE LET fresh == SelectSeq(AssetNames,
                         LAMBDA x : /\ MentionsAsset(news[1], x)
                                    /\ \A i \in 1..Len(seen) : seen[i] # x)
         IN AnalysedAssets(Tail(news), seen \o fresh)

\* getDominantSentiment(data)
DominantSentiment(data) ==
    IF data.positive > data.negative /\ data.positive > data.neutral THEN "positive"
    ELSE IF data.negative > data.positive /\ data.negative > data.neutral THEN "negative"
    ELSE "neutral"

\* the action of the recommendation tables for a sentiment
ActionFor(sentiment) ==
    CASE sentiment = "positive" -> "BUY"
      [] sentiment = "negative" -> "SELL"
      [] sentiment = "neutral" -> "HOLD"

\* getMarketRecommendation(sentiment)
MarketRecommendation(sentiment) ==
    [type |-> "market", asset |-> "overall market", action |-> ActionFor(sentiment),
     confidence |-> IF sentiment = "neutral" THEN "low" ELSE "medium"]

\* what this.getAssetRecommendation(asset, sentiment, mentions) evaluates to
\* in generateRecommendations: the class defines getAssetRecommendation twice
\* and the later, async definition replaces the three-argument one, so the
\* call returns a Promise, an object without asset or action
PendingPromise == [type |-> "promise"]

\* the entries of analysis.assets that pass the filter data.mentions >= 2
AssetsToRecommend(news) ==
    SelectSeq(AnalysedAssets(news, <<>>),
              LAMBDA x : Count(news, LAMBDA a : MentionsAsset(a, x)) >= 2)

\* recommendations.slice(0, 5)
Slice5(all) == SubSeq(all, 1, IF Len(all) < 5 THEN Len(all) ELSE 5)

\* generateRecommendations(analysis): the market recommendation, then one
\* entry per asset with at least 2 mentions; the sort compares
\* (b.confidence || 0) - (a.confidence || 0), which is NaN or 0 for these
\* entries and keeps their order; slice(0, 5)
GenerateRecommendations(news) ==
    Slice5(<<MarketRecommendation(DominantSentiment(OverallData(news)))>> \o
           [i \in 1..Len(AssetsToRecommend(news)) |-> PendingPromise])

\* the getAssetRecommendation calls generateRecommendations starts: the async
\* definition runs for every asset with at least 2 mentions, before slice
Spawned(news) ==
    {AssetsToRecommend(news)[i] : i \in 1..Len(AssetsToRecommend(news))}

\* recommendations.find(r => r.asset.toLowerCase() === asset.toLowerCase()):
\* "threw" when r.asset is undefined for an entry reached before a match,
\* "none" when no entry matches, else the entry
RECURSIVE FindRecommendation(_, _)
FindRecommendation(recs, asset) ==
    IF recs = <<>> THEN [found |-> "none"]
    ELSE IF recs[1].type = "promise" THEN [found |-> "threw"]
    ELSE IF recs[1].asset = asset THEN [found |-> "entry", action |-> recs[1].action]
    ELSE FindRecommendation(Tail(recs), asset)

\* a reply text, by its kind
Reply(kind) == [kind |-> kind, action |-> "-"]

\* the string getAssetRecommendation(asset) returns for what find came to:
\* the catch block's text, the "not enough" text or the formatted entry
ReplyFor(f) ==
    CASE f.found = "threw" -> Reply("unable")
      [] f.found = "none" -> Reply("notEnough")
      [] f.found = "entry" -> [kind |-> "recommendation", action |-> f.action]

\* the string getAssetRecommendation(asset) resolves to, given what
\* getNewsByCategory(asset) came to
AssetReply(asset, r) ==
    IF r.threw THEN Reply("unable")
    ELSE ReplyFor(FindRecommendation(GenerateRecommendations(r.news), asset))

\* the string analyzeInvestmentOpportunities() resolves to, or Null when it
\* throws
AnalysisReply(r) == IF r.threw THEN Null ELSE <<Reply("analysis")>>

\* formatNewsForDisplay(news)
FormatNews(news) == IF Len(news) = 0 THEN Reply("noNews") ELSE Reply("news")

\* the words chat messages are made of
Words == {"hello", "Invest", "news", "market", "bitcoin", "trending"}

\* the chat messages: words separated by spaces
Texts ==
    { <<"hello">>, <<"Invest">>, <<"news">>, <<"market">>, <<"bitcoin">>,
      <<"trending">>, <<"Invest", "bitcoin">>, <<"hello", "news">> }

\* String.prototype.toLowerCase() on a word
ToLowerCase(word) == IF word = "Invest" THEN "invest" ELSE word

\* message.toLowerCase()
LowerMessage(text) == [i \in 1..Len(text) |-> ToLowerCase(text[i])]

\* keyword is a substring of the word
SubstringOf(keyword, word) ==
    keyword = word \/ <<keyword, word>> \in {<<"trend", "trending">>}

\* lowerMessage.includes(keyword) for a keyword without spaces
Includes(lowerMessage, keyword) ==
    \E i \in 1..Len(lowerMessage) : SubstringOf(keyword, lowerMessage[i])

\* investmentKeywords of handleInvestmentRequest (the unaccented ones)
investmentKeywords ==
    { "invertir", "invest", "comprar", "buy", "vender", "sell",
      "recommendation", "mercado", "market", "trading", "precio", "price",
      "tendencia", "trend", "oportunidad", "opportunity", "portfolio",
      "cartera", "estrategia", "strategy", "analysis", "prediction" }

\* newsKeywords of handleNewsRequest (the unaccented ones)
newsKeywords ==
    { "noticias", "news", "crypto", "bitcoin", "ethereum", "blockchain",
      "mercado", "market", "precio", "price", "trading", "defi", "nft",
      "tendencias", "trending", "latest", "actualidad" }

\* IsInvestmentRequest that looks at the message as typed
IsInvestmentRequestCaseSensitive(text) ==
    \E keyword \in investmentKeywords : Includes(text, keyword)

\* investmentKeywords.some(keyword => lowerMessage.includes(keyword))
IsInvestmentRequest(text) ==
    \E keyword \in investmentKeywords : Includes(LowerMessage(text), keyword)

\* newsKeywords.some(keyword => lowerMessage.includes(keyword))
IsNewsRequest(text) ==
    \E keyword \in newsKeywords : Includes(LowerMessage(text), keyword)

\* the assets list of handleInvestmentRequest
InvestAssets ==
    <<"bitcoin", "btc", "ethereum", "eth", "solana", "sol",
      "cardano", "ada", "polkadot", "dot">>

\* assets.find(asset => lowerMessage.includes(asset)), Null when none
MentionedAsset(text) ==
    LET hits == SelectSeq(InvestAssets, LAMBDA x : Includes(LowerMessage(text), x))
    IN IF hits = <<>> THEN Null ELSE <<hits[1]>>

\* normalizeAssetName(asset)
NormalizeAssetName(asset) ==
    CASE asset = "btc" -> "bitcoin"
      [] asset = "eth" -> "ethereum"
      [] asset = "sol" -> "solana"
      [] asset = "ada" -> "cardano"
      [] asset = "dot" -> "polkadot"
      [] OTHER -> asset

\* return await investmentAnalyzer.getAssetRecommendation(assetName), given
\* what getNewsByCategory(assetName) came to
AssetAnswerFrom(asset, r) ==
    [reply |-> <<AssetReply(asset, r)>>, cache |-> r.cache, sent |-> r.sent,
     spawned |-> IF r.threw THEN {} ELSE Spawned(r.news)]

AssetAnswer(asset, api) == AssetAnswerFrom(asset, NewsByCategory(asset, Null, api))

\* return await investmentAnalyzer.analyzeInvestmentOpportunities(), given
\* what getLatestNews() came to; the catch block's text when it throws
AnalysisAnswer(r) ==
    [reply |-> IF r.threw THEN <<Reply("investError")>> ELSE AnalysisReply(r),
     cache |-> r.cache, sent |-> r.sent,
     spawned |-> IF r.threw THEN {} ELSE Spawned(r.news)]

\* handleInvestmentRequest(message): the reply (Null when the message has no
\* investment keyword) and the news fetch it made
InvestmentRequest(text, api) ==
    IF ~IsInvestmentRequest(text)
    THEN [reply |-> Null, cache |-> cache, sent |-> {}, spawned |-> {}]
    ELSE IF MentionedAsset(text) # Null
    THEN AssetAnswer(NormalizeAssetName(MentionedAsset(text)[1]), api)
    ELSE AnalysisAnswer(LatestNews(Null, api))

\* lowerMessage.includes(a) || lowerMessage.includes(b) ...
IncludesAny(text, keywords) ==
    \E keyword \in keywords : Includes(LowerMessage(text), keyword)

\* return newsService.formatNewsForDisplay(news), given what the fetch came
\* to; the catch block's text when it threw
CategoryAnswer(r) ==
    [reply |-> IF r.threw THEN <<Reply("newsError")>> ELSE <<FormatNews(r.news)>>,
     cache |-> r.cache, sent |-> r.sent]

\* the trending topics text, given what getTrendingTopics came to
TrendingAnswer(r) ==
    [reply |-> IF r.threw THEN <<Reply("newsError")>> ELSE <<Reply("trending")>>,
     cache |-> r.cache, sent |-> r.sent]

\* handleNewsRequest(message): the reply (Null when the message has no news
\* keyword) and the news fetch it made
NewsRequest(text, api) ==
    IF ~IsNewsRequest(text)
    THEN [reply |-> Null, cache |-> cache, sent |-> {}]
    ELSE IF IncludesAny(text, {"bitcoin", "btc"})
    THEN CategoryAnswer(NewsByCategory("bitcoin", Null, api))
    ELSE IF IncludesAny(text, {"ethereum", "eth"})
    THEN CategoryAnswer(NewsByCategory("ethereum", Null, api))
    ELSE IF IncludesAny(text, {"market", "price"})
    THEN CategoryAnswer(NewsByCategory("markets", Null, api))
    ELSE IF IncludesAny(text, {"trending"})
    THEN TrendingAnswer(LatestNews(Null, api))
    ELSE CategoryAnswer(LatestNews(Null, api))

\* what generateResponse returned: the route taken, the reply (Null when it
\* threw) and whether this.provider.generateResponse was called
Response(text, route, reply, provider) ==
    [text |-> text, route |-> route, reply |-> reply, provider |-> provider]

\* AIService.generateResponse(userId, message): the investment check, then
\* the news check, then the provider with the stored history
GenerateResponse(u, text, providerOk, api) ==
    \E inv \in {InvestmentRequest(text, api)} :
       IF inv.reply # Null
       THEN /\ cache' = inv.cache
            /\ requests' = requests \cup inv.sent
            /\ tasks' = tasks \cup inv.spawned
            /\ ret' = Call("generateResponse", u, Response(text, "investment", inv.reply, FALSE))
            /\ UNCHANGED storeVars
       ELSE \E news \in {NewsRequest(text, api)} :
       IF news.reply # Null
       THEN /\ cache' = news.cache
            /\ requests' = requests \cup news.sent
            /\ tasks' = tasks
            /\ ret' = Call("generateResponse", u, Response(text, "news", news.reply, FALSE))
            /\ UNCHANGED storeVars
       ELSE IF providerOk
       THEN /\ nCalls < MaxChats
            /\ UpdateConversationHistory(u, MessageText(nCalls + 1), ReplyText(nCalls + 1))
            /\ ret' = Call("generateResponse", u,
                           Response(text, "provider", <<Reply("ai")>>, TRUE))
            /\ UNCHANGED newsVars
       ELSE /\ ret' = Call("generateResponse", u, Response(text, "provider", Null, TRUE))
            /\ UNCHANGED <<storeVars, newsVars>>

\* the answers of the collaborators generateResponse consults for a message:
\* the CARV API for a message with a keyword, else the provider
ExternalOutcomes(text) ==
    IF IsInvestmentRequest(text) \/ IsNewsRequest(text)
    THEN {[providerOk |-> TRUE, api |-> a] : a \in ApiOutcomes}
    ELSE {[providerOk |-> b, api |-> [ok |-> FALSE, news |-> <<>>]] : b \in BOOLEAN}

\* handleNewsCommand: newsService.getLatestNews(), formatNewsForDisplay; ret
\* holds what getLatestNews did (threw, the articles it returned, whether it
\* sent a request and whether that request succeeded) and the reply
NewsCommand(api) ==
    \E r \in {LatestNews(Null, api)} :
       /\ cache' = r.cache
       /\ requests' = requests \cup r.sent
       /\ tasks' = tasks
       /\ ret' = Call("getLatestNews", "-",
                      [threw |-> r.threw, news |-> r.news,
                       requested |-> r.sent # {}, ok |-> r.sent # {} /\ api.ok,
                       reply |-> IF r.threw THEN Reply("newsError")
                                 ELSE FormatNews(r.news)])

\* clearCache()
ClearCache ==
    /\ cache # EmptyMap
    /\ cache' = EmptyMap
    /\ ret' = Call("clearCache", "-", 0)
    /\ UNCHANGED <<requests, tasks>>

\* handleTrendingCommand: newsService.getTrendingTopics()
TrendingCommand(api) ==
    \E r \in {LatestNews(Null, api)} :
       /\ cache' = r.cache
       /\ requests' = requests \cup r.sent
       /\ tasks' = tasks
       /\ ret' = Call("getTrendingTopics", "-",
                      IF r.threw THEN Reply("trendingError") ELSE Reply("trending"))

\* handleInvestCommand: investmentAnalyzer.analyzeInvestmentOpportunities()
InvestCommand(api) ==
    \E r \in {LatestNews(Null, api)} :
       /\ cache' = r.cache
       /\ requests' = requests \cup r.sent
       /\ tasks' = tasks \cup (IF r.threw THEN {} ELSE Spawned(r.news))
       /\ ret' = Call("analyzeInvestmentOpportunities", "-",
                      IF AnalysisReply(r) = Null THEN Reply("investError")
                      ELSE AnalysisReply(r)[1])

\* handleAnalyzeCommand: investmentAnalyzer.getAssetRecommendation(asset)
AnalyzeCommand(asset, api) ==
    \E r \in {NewsByCategory(asset, Null, api)} :
       /\ cache' = r.cache
       /\ requests' = requests \cup r.sent
       /\ tasks' = tasks \cup (IF r.threw THEN {} ELSE Spawned(r.news))
       /\ ret' = Call("getAssetRecommendation", asset, AssetReply(asset, r))

\* a getAssetRecommendation(asset) call started by generateRecommendations
\* runs to its end: it reads the asset's category news, analyses them and
\* calls generateRecommendations, which starts a call for every asset with at
\* least 2 mentions; the string it resolves to is dropped. Calls running for
\* the same asset are kept as one.
BackgroundAnalysis(asset, api) ==
    \E r \in {NewsByCategory(asset, Null, api)} :
       /\ asset \in tasks
       /\ cache' = r.cache
       /\ requests' = requests \cup r.sent
       /\ tasks' = (tasks \ {asset}) \cup (IF r.threw THEN {} ELSE Spawned(r.news))
       /\ ret' = Call("backgroundAnalysis", asset, AssetReply(asset, r))

\* five minutes pass: a cached entry expires
NewsTick ==
    /\ now < MaxNewsTicks * cacheTimeout
    /\ now' = now + cacheTimeout
    /\ ret' = NoCall
    /\ UNCHANGED <<env, userRequests, nextSweep, recorded, newsVars>>

\* the user whose chat messages reach generateResponse
ChatUsers == {"u1"}

\* the environments of the news requests: CARV_AUTH_TOKEN set or not
NewsEnvConfigs ==
    [ limit : {Unset}, window : {Unset}, telegramToken : {<<"t">>},
      openaiKey : {<<"k">>}, carvToken : {Unset, <<"c">>} ]

InitNewsSpec ==
    InitRL(NewsEnvConfigs) /\ InitStore /\ InitBot /\ InitRunning /\ InitNews /\ args = <<>>

NextNews ==
    \/ \E api \in ApiOutcomes :
          NewsCommand(api) /\ UNCHANGED <<rlState, storeVars, botVars, lifeVars, args>>
    \/ \E api \in ApiOutcomes :
          TrendingCommand(api) /\ UNCHANGED <<rlState, storeVars, botVars, lifeVars, args>>
    \/ \E api \in ApiOutcomes :
          InvestCommand(api) /\ UNCHANGED <<rlState, storeVars, botVars, lifeVars, args>>
    \/ \E asset \in {"bitcoin", "ethereum"}, api \in ApiOutcomes :
          AnalyzeCommand(asset, api) /\ UNCHANGED <<rlState, storeVars, botVars, lifeVars, args>>
    \/ \E u \in ChatUsers, text \in Texts : \E ext \in ExternalOutcomes(text) :
          GenerateResponse(u, text, ext.providerOk, ext.api)
             /\ UNCHANGED <<rlState, botVars, lifeVars, args>>
    \/ \E asset \in {"bitcoin", "ethereum"}, api \in ApiOutcomes :
          BackgroundAnalysis(asset, api)
             /\ UNCHANGED <<rlState, storeVars, botVars, lifeVars, args>>
    \/ ClearCache /\ UNCHANGED <<rlState, storeVars, botVars, lifeVars, args>>
    \/ NewsTick /\ UNCHANGED <<storeVars, botVars, lifeVars, args>>

SpecNews == InitNewsSpec /\ [][NextNews]_vars

----------------------------------------------------------------------------
(* generateRecommendations as a function of the analysed articles *)

\* the asset groups an article handed to the analyzer can mention
AnalyzerMentions ==
    { {}, {"bitcoin"}, {"bitcoin", "ethereum"},
      {"bitcoin", "ethereum", "solana", "cardano", "polkadot"} }

\* the articles handed to the analyzer
AnalyzerArticles ==
    {Article(m, s) : m \in AnalyzerMentions, s \in {"positive", "negative", "neutral"}}

\* the article lists of at most n articles
NewsUpTo(n) == UNION {[1..k -> AnalyzerArticles] : k \in 0..n}

\* this.generateRecommendations(this.analyzeNewsSentiment(news))
CallGenerateRecommendations ==
    /\ ret = NoCall
    /\ ret' = Call("generateRecommendations", "-", GenerateRecommendations(args.news))
    /\ tasks' = tasks \cup Spawned(args.news)
    /\ UNCHANGED <<rlState, storeVars, botVars, lifeVars, cache, requests, args>>

InitAnalyzerSpec ==
    /\ InitRL(NewsEnvConfigs) /\ InitStore /\ InitBot /\ InitRunning /\ InitNews
    /\ args \in [news : NewsUpTo(MaxArticles)]

NextAnalyzer == CallGenerateRecommendations

SpecAnalyzer == InitAnalyzerSpec /\ [][NextAnalyzer]_vars

----------------------------------------------------------------------------
(* Properties of the RateLimiter, checked under Spec *)

\* U's recorded timestamps that are younger than W ms at time t
NonExpired(u, t) == {i \in 1..Len(recorded[u]) : t - recorded[u][i] < W}

\* the timestamps of a sequence that are younger than W ms, in order
Younger(reqs) == SelectSeq(reqs, LAMBDA ts : now - ts < W)

\* more than W ms have passed since U's last recordRequest
Quiet(u) == /\ Len(recorded[u]) > 0
            /\ now - recorded[u][Len(recorded[u])] > W

\* C1: isRateLimited(U) returns true if and only if at least L of U's recorded
\* timestamps are younger than W ms: true after L calls of recordRequest(U)
\* within one window, false after fewer.
C1_LimitedIffCount ==
    ret.op = "isRateLimited" =>
        (ret.val <=> Cardinality(NonExpired(ret.user, now)) >= L)

\* C1 witness: isRateLimited returned true right when the L-th request of one
\* window had been recorded (L = 2, both requests still in the window).
C1_Witness ==
    /\ ret.op = "isRateLimited"
    /\ ret.val = TRUE
    /\ L = 2
    /\ W >= 1
    /\ Cardinality(NonExpired(ret.user, now)) = L

\* C2: once more than W ms have passed since U's last recordRequest,
\* isRateLimited(U) returns false and getRemainingRequests(U) returns L
\* (L >= 1), whether or not a sweep ran in between.
C2_ResetAfterWindow ==
    (L >= 1 /\ ret.op \in {"isRateLimited", "getRemainingRequests"}
            /\ Quiet(ret.user)) =>
        /\ ret.op = "isRateLimited" => ret.val = FALSE
        /\ ret.op = "getRemainingRequests" => ret.val = L

\* C2 witness: getRemainingRequests answered for a user who had used up the
\* whole quota, after the window passed, with the expired timestamps still
\* stored (no sweep and no isRateLimited call removed them).
C2_Witness ==
    /\ ret.op = "getRemainingRequests"
    /\ L >= 1
    /\ W >= 1
    /\ Quiet(ret.user)
    /\ Len(recorded[ret.user]) >= L
    /\ MapHas(userRequests, ret.user)
    /\ Len(userRequests[ret.user]) >= L

\* C3: getRemainingRequests(U) equals max(0, L - number of U's non-expired
\* recorded timestamps) and is never negative nor greater than L.
C3_RemainingInRange ==
    ret.op = "getRemainingRequests" =>
        /\ ret.val = Max(0, L - Cardinality(NonExpired(ret.user, now)))
        /\ ret.val >= 0
        /\ ret.val <= L

\* C6: a sweep deletes the entry of every user all of whose timestamps have
\* expired (so activeUsers decreases), keeps the entry of a user who has a
\* non-expired timestamp, and removes no non-expired timestamp.
C6_SweepDeletesExpired ==
    [][Cleanup =>
        /\ \A u \in DOMAIN userRequests :
              IF Younger(userRequests[u]) = <<>>
              THEN ~MapHas(userRequests', u)
              ELSE /\ MapHas(userRequests', u)
                   /\ userRequests'[u] = Younger(userRequests[u])
        /\ DOMAIN userRequests' \subseteq DOMAIN userRequests
        /\ (\E u \in DOMAIN userRequests : Younger(userRequests[u]) = <<>>)
              => Cardinality(DOMAIN userRequests') < Cardinality(DOMAIN userRequests)
    ]_vars

\* C6 witness: a sweep has just deleted the entry of a user whose recorded
\* requests had all expired, while another user with a request still in the
\* window kept the entry.
C6_Witness ==
    /\ ret.op = "cleanup"
    /\ W >= 1
    /\ ret.val > Stats.activeUsers
    /\ \E u \in Users : /\ Len(recorded[u]) > 0
                        /\ NonExpired(u, now) = {}
                        /\ ~MapHas(userRequests, u)
    /\ \E u \in Users : /\ NonExpired(u, now) # {}
                        /\ MapHas(userRequests, u)

\* C7: getTimeUntilReset(U) returns 0 when U has no stored requests and
\* otherwise max(0, t + W - now), t the oldest non-expired timestamp of U,
\* also when expired timestamps are still stored next to valid ones.
C7_TimeUntilResetOldestValid ==
    ret.op = "getTimeUntilReset" =>
        LET reqs == MapGetOr(userRequests, ret.user, <<>>)
        IN /\ reqs = <<>> => ret.val = 0
           /\ Younger(reqs) # <<>> =>
                 ret.val = Max(0, (MinOf(Younger(reqs)) + W) - now)

\* C8: at the moment of any read every timestamp stored for the user is
\* within W ms of now, and getStats().totalRequests counts only non-expired
\* requests.
C8_NoExpiredAtRead ==
    /\ ret.op \in {"isRateLimited", "getRemainingRequests", "getTimeUntilReset"} =>
          LET reqs == MapGetOr(userRequests, ret.user, <<>>)
          IN Younger(reqs) = reqs
    /\ ret.op = "getStats" =>
          /\ \A u \in DOMAIN userRequests :
                Younger(userRequests[u]) = userRequests[u]
          /\ ret.val.totalRequests =
                Cardinality(NonExpired("u1", now)) + Cardinality(NonExpired("u2", now))

\* C22: isRateLimited(U) replaces U's stored sequence by exactly its
\* non-expired timestamps, in their original order, and adds none; a
\* timestamp aged exactly W ms counts as expired, and isRateLimited,
\* getRemainingRequests and the sweep classify every timestamp identically at
\* the same instant.
C22_PruneKeepsValidInOrder ==
    [][/\ ret'.op = "isRateLimited" =>
             LET stored == MapGetOr(userRequests, ret'.user, <<>>)
             IN /\ MapHas(userRequests', ret'.user)
                /\ userRequests'[ret'.user] = Younger(stored)
                /\ \A i \in 1..Len(userRequests'[ret'.user]) :
                      now - userRequests'[ret'.user][i] # W
                /\ \A u \in DOMAIN userRequests \ {ret'.user} :
                      MapHas(userRequests', u) /\ userRequests'[u] = userRequests[u]
       /\ ret'.op = "getRemainingRequests" =>
             ret'.val = Max(0, L - Len(Younger(MapGetOr(userRequests, ret'.user, <<>>))))
       /\ ret'.op = "cleanup" =>
             \A u \in DOMAIN userRequests :
                 MapGetOr(userRequests', u, <<>>) = Younger(userRequests[u])
       /\ \A u \in DOMAIN userRequests : \A i \in 1..Len(userRequests[u]) :
             InWindow(now, userRequests[u][i]) <=> AfterCutoff(now, userRequests[u][i])
    ]_vars

\* C22 witness: isRateLimited has just dropped a timestamp aged exactly W ms
\* and kept the newer one that is still in the window.
C22_Witness ==
    /\ ret.op = "isRateLimited"
    /\ W >= 1
    /\ \E i \in 1..Len(recorded[ret.user]) : now - recorded[ret.user][i] = W
    /\ MapHas(userRequests, ret.user)
    /\ Len(userRequests[ret.user]) >= 1
    /\ Len(userRequests[ret.user]) < Len(recorded[ret.user])
    /\ \A i \in 1..Len(userRequests[ret.user]) : now - userRequests[ret.user][i] < W

\* C16: with RATE_LIMIT_PER_USER set to 0 the limit is L = 0 and
\* isRateLimited(U) returns true for every user at every time, so no inbound
\* message is ever accepted.
C16_ZeroLimitAlwaysLimits ==
    (env.limit = <<0>> /\ ret.op = "isRateLimited") =>
        /\ L = 0
        /\ ret.val = TRUE

----------------------------------------------------------------------------
(* Properties of the conversation history, checked under SpecStore *)

\* the turns of a sequence of exchanges: user turn, then assistant turn
RECURSIVE TurnsOf(_)
TurnsOf(xs) ==
    IF xs = <<>> THEN <<>>
    ELSE << [role |-> "user", content |-> xs[1][1]],
            [role |-> "assistant", content |-> xs[1][2]] >> \o TurnsOf(Tail(xs))

\* the last k elements of a sequence (all of it when it is shorter)
LastK(s, k) == [i \in 1..(IF Len(s) < k THEN Len(s) ELSE k) |->
                  s[i + (IF Len(s) < k THEN 0 ELSE Len(s) - k)]]

\* C4: after n appends since U's entry was created, getHistory(U) is exactly
\* the last min(n, maxExchanges) exchanges, oldest first, each a user turn
\* followed by its assistant turn; its length never exceeds 2 x maxExchanges.
C4_HistoryIsLastExchanges ==
    \A u \in Users :
        /\ ConversationHistoryOf(u) = TurnsOf(LastK(appended[u], maxHistoryLength))
        /\ Len(ConversationHistoryOf(u)) <= 2 * maxHistoryLength
        /\ ret.op = "getConversationHistory" /\ ret.user = u
              => ret.val = TurnsOf(LastK(appended[u], maxHistoryLength))

\* C4 witness: getHistory answered after maxExchanges + 1 appends: it has
\* 2 x maxExchanges turns, starts with the second exchange and ends with the
\* newest.
C4_Witness ==
    /\ ret.op = "getConversationHistory"
    /\ Len(appended[ret.user]) = maxHistoryLength + 1
    /\ Len(ret.val) = 2 * maxHistoryLength
    /\ ret.val[1].content = appended[ret.user][2][1]
    /\ ret.val[Len(ret.val)].content = appended[ret.user][maxHistoryLength + 1][2]

\* C5: clear(U) deletes U's entry whatever its content: getHistory(U) is then
\* empty and the conversation statistics count only the other users.
C5_ClearDeletesEntry ==
    ret.op = "clearConversationHistory" =>
        LET others == (DOMAIN conversationHistory) \ {ret.user}
        IN /\ ~MapHas(conversationHistory, ret.user)
           /\ ConversationHistoryOf(ret.user) = <<>>
           /\ ConversationStats.activeUsers = Cardinality(others)
           /\ ConversationStats.totalConversations = SumLen(conversationHistory, others)

\* C5 witness: clear has just deleted an existing entry while the other user
\* still has a history.
C5_Witness ==
    /\ ret.op = "clearConversationHistory"
    /\ ret.val = TRUE
    /\ ~MapHas(conversationHistory, ret.user)
    /\ ConversationStats.activeUsers = 1
    /\ ConversationStats.totalConversations >= 4

----------------------------------------------------------------------------
(* Properties of message handling, checked under SpecBot *)

\* position of x in a sequence, 0 when absent
PosIn(s, x) == IF \E i \in 1..Len(s) : s[i] = x
               THEN CHOOSE i \in 1..Len(s) : s[i] = x
               ELSE 0

\* position of the user turn of message h in its sender's stored history
TurnPos(h) ==
    PosIn(MapGetOr(conversationHistory, msg[h].user, <<>>),
          [role |-> "user", content |-> MessageText(h)])

\* C9 (as claimed): between a message's isRateLimited check and its own
\* recordRequest the handler of another message of the same user can run its
\* check and its record, so the user's non-expired requests can exceed L.
C9_RaceBetweenCheckAndRecord ==
    \A a \in Handlers :
        (pc[a] = "record" /\ nMsgs < MaxMsgs) => ENABLED Receive(msg[a].user, "chat")

\* C9 (amended): the check and the record of one message run in one
\* synchronous segment: while a handler is between them it holds the event
\* loop, and however many messages of a user are in flight the number of that
\* user's non-expired recorded requests never exceeds L (0 for a negative L).
C9_CheckAndRecordAtomic ==
    /\ \A h \in Handlers : pc[h] = "record" => running = h
    /\ \A u \in Users : Cardinality(NonExpired(u, now)) <= Max(0, L)

\* C9 witness: two messages of one user in flight at the same time: the first
\* accepted and waiting for the provider, the second refused because the
\* first one's request already filled the quota.
C9_Witness ==
    \E a, b \in Handlers :
        /\ a # b
        /\ msg[a].user = msg[b].user
        /\ pc[a] = "awaitProvider"
        /\ pc[b] = "throttled"
        /\ L >= 1
        /\ Cardinality(NonExpired(msg[a].user, now)) = L

\* C10: if message A of user U is received before message B of U, A's
\* request is recorded before B's and A's exchange is appended to U's
\* history before B's, in whatever order the provider calls complete.
C10_ArrivalOrderKept ==
    \A a, b \in Handlers :
        (a < b /\ a <= nMsgs /\ b <= nMsgs /\ msg[a].user = msg[b].user) =>
            /\ PosIn(recordOrder, b) # 0 =>
                  (PosIn(recordOrder, a) = 0 \/ PosIn(recordOrder, a) < PosIn(recordOrder, b))
            /\ (TurnPos(a) # 0 /\ TurnPos(b) # 0) => TurnPos(a) < TurnPos(b)

\* a time in ms as the notice states it: whole minutes, rounded up
Minutes(ms) ==
    IF ms <= 0 THEN 0
    ELSE CHOOSE m \in 1..(ms + 1) : (m - 1) * 60000 < ms /\ ms <= m * 60000

\* C11: when isRateLimited(U) is true for an inbound message, the handler
\* sends exactly one throttling notice carrying the wait time (what
\* getTimeUntilReset(U) returns, in minutes) and stops: it records no request
\* for U, runs no command or text-generation processing and leaves U's
\* conversation history unchanged.
C11_ThrottledStops ==
    [][\A h \in Handlers :
          /\ pc[h] \in {"limited", "throttled"} => pc'[h] \in {"limited", "throttled"}
          /\ (pc[h] = "limited" /\ pc'[h] = "throttled") =>
                /\ ret'.op = "getTimeUntilReset" /\ ret'.user = msg[h].user
                /\ sent'[h] = <<[kind |-> "notice", wait |-> Minutes(ret'.val)]>>
                /\ recorded' = recorded
                /\ userRequests' = userRequests
                /\ conversationHistory' = conversationHistory
          /\ pc'[h] = "throttled" =>
                /\ Len(sent'[h]) = 1 /\ sent'[h][1].kind = "notice"
                /\ PosIn(recordOrder', h) = 0
                /\ TurnPos(h)' = 0
    ]_vars

\* C11 witness: a /clear message of a user with a stored history was refused:
\* one notice, nothing recorded for it, the history still there.
C11_Witness ==
    \E h \in Handlers :
        /\ pc[h] = "throttled"
        /\ msg[h].kind = "clear"
        /\ L >= 1
        /\ MapHas(conversationHistory, msg[h].user)
        /\ sent[h] = <<[kind |-> "notice", wait |-> 1]>>
        /\ PosIn(recordOrder, h) = 0

\* C12: generateResponse appends the exchange to U's history only after the
\* provider returned a reply; when the provider fails U's history is left
\* unchanged, handleMessage returns normally and the user receives exactly
\* one apology message.
C12_AppendOnlyOnSuccess ==
    [][\A h \in Handlers :
          /\ TurnPos(h)' # 0 =>
                /\ pc'[h] = "replied"
                /\ sent'[h] = <<[kind |-> "reply", wait |-> 0]>>
          /\ (TurnPos(h) = 0 /\ TurnPos(h)' # 0) => pc[h] = "awaitProvider"
          /\ HProviderFailed(h) =>
                /\ conversationHistory' = conversationHistory
                /\ pc'[h] = "replied"
                /\ sent'[h] = <<[kind |-> "apology", wait |-> 0]>>
    ]_vars

\* C12 witness: the provider failed for a message of a user who already had
\* a stored exchange: one apology sent, the history holds the earlier
\* exchange only.
C12_Witness ==
    \E h \in Handlers :
        /\ ret = [op |-> "generateResponse", user |-> msg[h].user, val |-> "error"]
        /\ pc[h] = "replied"
        /\ sent[h] = <<[kind |-> "apology", wait |-> 0]>>
        /\ MapHas(conversationHistory, msg[h].user)
        /\ Len(conversationHistory[msg[h].user]) = 2
        /\ TurnPos(h) = 0

\* the handlers of messages of user u whose request has been recorded
RecordedHandlers(u) ==
    {h \in Handlers : msg[h].user = u /\ PosIn(recordOrder, h) # 0}

\* every handler that leaves the check un-throttled pushes one timestamp for
\* its sender on its way to the dispatch, a throttled one pushes none, and the
\* timestamps recorded for a user are one per recorded message of that user
RecordsOncePerMessage ==
    /\ \A h \in Handlers :
        /\ (pc[h] = "record" /\ pc'[h] # "record") =>
              /\ pc'[h] = "dispatch"
              /\ recorded'[msg[h].user] = Append(recorded[msg[h].user], now)
        /\ pc'[h] \in {"limited", "throttled"} => PosIn(recordOrder', h) = 0
        /\ pc'[h] \in {"dispatch", "awaitTyping", "awaitProvider",
                       "statsReset", "replied"} =>
              Cardinality({i \in 1..Len(recordOrder') : recordOrder'[i] = h}) = 1
    /\ \A u \in Users : Len(recorded'[u]) = Cardinality(RecordedHandlers(u)')

\* the timestamp last recorded for u is younger than W ms
LastRecordedInWindow(u) ==
    /\ recorded[u] # <<>>
    /\ InWindow(now, recorded[u][Len(recorded[u])])

\* C27 (as claimed): every inbound message that is not throttled records
\* exactly one timestamp for its sender before it is dispatched, whatever its
\* kind and whether or not its processing later fails; a throttled message
\* records none; hence the remaining quota a /stats reply reports is never the
\* full quota L.
C27_StatsNeverReportsFullQuota ==
    [][ /\ RecordsOncePerMessage
        /\ ret'.op = "getRemainingRequests" => ret'.val # L
    ]_vars

\* C27 (amended): every inbound message that is not throttled records exactly
\* one timestamp for its sender before it is dispatched, whatever its kind and
\* whether or not its processing later fails; a throttled message records
\* none; the remaining quota a /stats reply reports is not the full quota L
\* as long as the timestamp recorded for the /stats message itself is younger
\* than W ms when handleStatsCommand reads the quota.
C27_EveryMessageRecordsOnce ==
    [][ /\ RecordsOncePerMessage
        /\ \A u \in Users :
              (ret' = Call("getRemainingRequests", u, ret'.val) /\ LastRecordedInWindow(u)') =>
                  ret'.val # L
    ]_vars

\* C27 witness: a /stats message, the first of its sender, recorded its
\* request and then read a remaining quota of L - 1.
C27_Witness ==
    \E h \in Handlers :
        /\ msg[h].kind = "stats"
        /\ pc[h] = "statsReset"
        /\ recorded[msg[h].user] = <<now>>
        /\ L >= 1
        /\ ret = [op |-> "getRemainingRequests", user |-> msg[h].user, val |-> L - 1]

\* C28: after a /clear of user U has been handled, U's history never contains
\* an exchange whose user message was received before that /clear, also when
\* the reply to the earlier message was still being generated at the time of
\* the /clear.
C28_NothingFromBeforeClear ==
    \A a, c \in Handlers :
        ( /\ a < c /\ c <= nMsgs
          /\ msg[a].user = msg[c].user
          /\ msg[c].kind = "clear"
          /\ pc[c] = "replied"
          /\ PosIn(recordOrder, c) # 0 ) =>
            TurnPos(a) = 0

\* the exchange of message h as two stored turns
ExchangeOf(h) ==
    << [role |-> "user", content |-> MessageText(h)],
       [role |-> "assistant", content |-> ReplyText(h)] >>

\* user u sent no /clear so far
NoClearOf(u) ==
    \A c \in Handlers : ~(msg[c].user = u /\ msg[c].kind = "clear")

\* C29: when two messages of one user are answered concurrently and both
\* provider calls succeed, both exchanges end up in the user's history: a
\* completing generateResponse appends its exchange to the history as it is
\* at completion time (keeping the last 2 x maxHistoryLength turns) and never
\* replaces it by what it read before awaiting the provider.
C29_ConcurrentExchangesBothKept ==
    [][ /\ \A h \in Handlers :
            (pc[h] = "awaitProvider" /\ pc'[h] = "replied" /\
             sent'[h] # sent[h] /\ sent'[h][Len(sent'[h])].kind = "reply") =>
                LET before == MapGetOr(conversationHistory, msg[h].user, <<>>)
                    after == conversationHistory'[msg[h].user]
                    kept == IF Len(before) <= 2 * maxHistoryLength - 2
                            THEN Len(before) ELSE 2 * maxHistoryLength - 2
                IN /\ Len(after) = kept + 2
                   /\ SubSeq(after, 1, kept) = SubSeq(before, Len(before) - kept + 1, Len(before))
                   /\ SubSeq(after, kept + 1, kept + 2) = ExchangeOf(h)
        /\ \A a, b \in Handlers :
            ( /\ a # b
              /\ msg[a].user = msg[b].user
              /\ NoClearOf(msg[a].user)'
              /\ pc'[a] = "replied" /\ sent'[a] = <<Outgoing("reply")>>
              /\ pc'[b] = "replied" /\ sent'[b] = <<Outgoing("reply")>> ) =>
                (TurnPos(a)' # 0 /\ TurnPos(b)' # 0)
    ]_vars

\* C29 witness: message a was received before message b of the same user and
\* was still waiting for the provider when b's exchange was stored; both
\* exchanges are in the history, b's first.
C29_Witness ==
    \E a, b \in Handlers :
        /\ a < b
        /\ msg[a].user = msg[b].user
        /\ pc[a] = "replied" /\ pc[b] = "replied"
        /\ MapGetOr(conversationHistory, msg[a].user, <<>>) = ExchangeOf(b) \o ExchangeOf(a)

----------------------------------------------------------------------------
(* Properties of startup and shutdown, checked under SpecLife *)

\* the required variables that are unset or empty in the environment
MissingNames ==
    {k \in {"TELEGRAM_BOT_TOKEN", "OPENAI_API_KEY"} :
        EnvVar(k) = Unset \/ EnvVar(k) = <<"">>}

\* C14: startup fails whenever TELEGRAM_BOT_TOKEN or OPENAI_API_KEY is
\* missing: validateConfig throws an error naming every missing variable, the
\* bot never reaches the running state and never handles a message, and the
\* process exits with a failure status; when both are present validation
\* passes, and a missing CARV_AUTH_TOKEN only produces a warning.
C14_StartupValidation ==
    phase # "load" =>
        IF MissingNames # {}
        THEN /\ phase = "exited"
             /\ exitCode = 1
             /\ ~isRunning
             /\ {logged.error[i] : i \in 1..Len(logged.error)} = MissingNames
             /\ Len(logged.error) = Cardinality(MissingNames)
             /\ userRequests = EmptyMap
             /\ NumRecorded = 0
             /\ ret.op = "validateConfig"
        ELSE /\ logged.error = <<>>
             /\ logged.warned = (env.carvToken \in {Unset, <<"">>})
             /\ exitCode # 1

\* C14 witness: started without either required variable, the process has
\* exited with status 1 and the error names both.
C14_Witness ==
    /\ phase = "exited"
    /\ exitCode = 1
    /\ logged.error = <<"TELEGRAM_BOT_TOKEN", "OPENAI_API_KEY">>
    /\ ~isRunning

\* C15: a configuration that yields a negative window length or a negative
\* request limit is a fatal error at startup: the bot does not start, and
\* the limiter never evaluates isRateLimited or a sweep with a negative W or L.
C15_NegativeConfigRejected ==
    (L < 0 \/ W < 0) =>
        /\ ~Alive
        /\ ~isRunning
        /\ ret.op \notin {"isRateLimited", "cleanup"}

\* C17: after stop() has been called the periodic sweep never runs again,
\* calling stop() again has no further effect, and shutdown calls stop()
\* before the process exits.
C17_NoSweepAfterStop ==
    [][/\ stops >= 1 => ~LifeSweep
       /\ (Stop /\ stops >= 1) =>
             /\ cleanupInterval' = cleanupInterval
             /\ rlState' = rlState
             /\ <<phase, isRunning, exitCode, logged>>' = <<phase, isRunning, exitCode, logged>>
       /\ Shutdown => (stops' = stops + 1 /\ cleanupInterval' = "cleared")
       /\ exitCode' = 0 => (stops' >= 1 /\ cleanupInterval' = "cleared")
    ]_vars

\* C17 witness: stop() has been called twice, the sweep is due and a user's
\* entry holds only expired timestamps, which no sweep removes any more.
C17_Witness ==
    /\ stops = 2
    /\ Alive
    /\ cleanupInterval = "cleared"
    /\ W >= 1
    /\ now >= nextSweep
    /\ \E u \in DOMAIN userRequests :
          userRequests[u] # <<>> /\ Younger(userRequests[u]) = <<>>

\* C26: whenever SIGINT or SIGTERM is received after the signal handlers
\* were installed, also while initialization is still in progress, the bot
\* eventually stops the sweep, stops polling and exits the process.
C26_SignalLeadsToExit ==
    (ret.op = "shutdown") ~> (phase = "exited" /\ cleanupInterval = "cleared")

----------------------------------------------------------------------------
(* Properties of splitMessage, checked under SpecSplit *)

\* C18: splitMessage(message, maxLength) returns only parts whose length is
\* at most maxLength and none of which is empty, for every message and every
\* maxLength >= 1; a message whose length is at most maxLength is returned
\* unchanged as a single part.
C18_PartsWithinMaxLength ==
    ret.op = "splitMessage" =>
        /\ \A i \in 1..Len(ret.val) :
              Len(ret.val[i]) <= args.maxLength /\ Len(ret.val[i]) >= 1
        /\ Len(args.message) <= args.maxLength => ret.val = <<args.message>>

----------------------------------------------------------------------------
(* Properties of the news services, checked under SpecNews *)

\* getNewsByCategory failed in the call that just returned: no article list,
\* fresh or stale, is left in the cache
FetchFailed == ~MapHas(cache, CacheKey)

\* the articles of the asset's category news that mention the asset, in the
\* article list the call that just returned worked on
MentionsOf(asset) ==
    IF FetchFailed THEN {}
    ELSE {i \in 1..Len(cache[CacheKey].data) : asset \in cache[CacheKey].data[i].mentions}

\* C13: getAssetRecommendation(asset) returns a BUY, SELL or HOLD
\* recommendation whenever the asset's category news mentions the asset in at
\* least 2 articles, the "not enough recent news data" reply when there are
\* fewer than 2 mentions, and the "unable to analyze" reply only when
\* fetching the news failed.
C13_AssetRecommendation ==
    ret.op = "getAssetRecommendation" =>
        /\ ret.val.kind = "unable" => FetchFailed
        /\ (~FetchFailed /\ Cardinality(MentionsOf(ret.user)) >= 2) =>
              /\ ret.val.kind = "recommendation"
              /\ ret.val.action \in {"BUY", "SELL", "HOLD"}
        /\ (~FetchFailed /\ Cardinality(MentionsOf(ret.user)) < 2) =>
              ret.val.kind = "notEnough"

\* C19: when CARV_AUTH_TOKEN is configured, every request sent to the CARV
\* news API, whichever command or keyword triggered it, carries that token
\* in its Authorization header.
C19_AuthorizationHeaderSent ==
    ~Falsy(env.carvToken) =>
        \A r \in requests :
            /\ MapHas(r, "Authorization")
            /\ r["Authorization"] = env.carvToken[1]

\* the lower-cased text contains one of the keywords
ContainsKeyword(text, keywords) ==
    \E i \in 1..Len(text), keyword \in keywords :
        SubstringOf(keyword, ToLowerCase(text[i]))

\* C20: generateResponse routes each chat message to exactly one outcome:
\* investment analysis if the text contains an investment keyword, otherwise
\* news if it contains a news keyword, otherwise the provider. For a message
\* with no keyword of either list handleInvestmentRequest and
\* handleNewsRequest return null; an intercepted message is neither sent to
\* the provider nor added to the conversation history.
C20_RoutingPrecedence ==
    [][ret'.op = "generateResponse" =>
          LET r == ret'.val
              investment == ContainsKeyword(r.text, investmentKeywords)
              news == ContainsKeyword(r.text, newsKeywords)
          IN /\ r.route = IF investment THEN "investment"
                          ELSE IF news THEN "news" ELSE "provider"
             /\ r.provider = (r.route = "provider")
             /\ (~investment /\ ~news) =>
                   \A api \in ApiOutcomes :
                       /\ InvestmentRequest(r.text, api).reply = Null
                       /\ NewsRequest(r.text, api).reply = Null
             /\ r.route # "provider" =>
                   /\ r.reply # Null
                   /\ conversationHistory' = conversationHistory
                   /\ appended' = appended
                   /\ nCalls' = nCalls
    ]_vars

\* C20 witness: a user with one stored exchange sent "market", a keyword of
\* both lists: the message was answered by the investment analysis, the
\* provider was not called and the history still holds that one exchange.
C20_Witness ==
    /\ ret.op = "generateResponse"
    /\ ret.val.text = <<"market">>
    /\ ret.val.route = "investment"
    /\ ret.val.provider = FALSE
    /\ nCalls = 1
    /\ Len(ConversationHistoryOf(ret.user)) = 2

----------------------------------------------------------------------------
(* Properties of generateRecommendations, checked under SpecAnalyzer *)

\* the assets with at least 2 mentions in the articles, in the order of
\* their first mention
AssetsWithTwoMentions(news) ==
    SelectSeq(AnalysedAssets(news, <<>>),
              LAMBDA x : Cardinality({i \in 1..Len(news) : x \in news[i].mentions}) >= 2)

\* C21: generateRecommendations(analysis) returns at most 5 elements, each a
\* recommendation record with an action in {BUY, SELL, HOLD}, an asset name
\* and a confidence in {high, medium, low}: one for the overall market and
\* one for each asset with at least 2 mentions that fits in the 5.
C21_RecommendationRecords ==
    ret.op = "generateRecommendations" =>
        LET assets == AssetsWithTwoMentions(args.news)
            expected == IF 1 + Len(assets) < 5 THEN 1 + Len(assets) ELSE 5
        IN /\ Len(ret.val) <= 5
           /\ Len(ret.val) = expected
           /\ \A i \in 1..Len(ret.val) :
                 /\ {"action", "asset", "confidence"} \subseteq DOMAIN ret.val[i]
                 /\ ret.val[i].action \in {"BUY", "SELL", "HOLD"}
                 /\ ret.val[i].confidence \in {"high", "medium", "low"}

----------------------------------------------------------------------------
(* Properties of the analysis tasks, checked under SpecNews *)

\* C23: handling one /invest or /analyze request terminates for every news
\* content: once analyzeInvestmentOpportunities or getAssetRecommendation has
\* produced its reply, no analysis task started by the request is still
\* running, and no running task starts another one.
C23_NoTaskAfterReply ==
    [][/\ ret'.op \in {"analyzeInvestmentOpportunities", "getAssetRecommendation"} =>
             tasks' \subseteq tasks
       /\ ret'.op = "backgroundAnalysis" =>
             tasks' \subseteq tasks \ {ret'.user}
    ]_vars

----------------------------------------------------------------------------
(* Properties of the news cache, checked under SpecNews *)

\* the cache holds articles fetched less than 5 minutes ago
FreshEntry ==
    MapHas(cache, CacheKey) /\ now - cache[CacheKey].timestamp < 5 * 60 * 1000

\* C24: getLatestNews issues no request when a successful fetch was cached
\* less than 5 minutes ago and then returns exactly the cached articles; once
\* the entry is 5 minutes old or older, or the cache was cleared, the call
\* issues a request, and a successful response replaces the cached articles
\* and restarts the 5 minutes.
C24_CacheWindow ==
    [][ret'.op = "getLatestNews" =>
          /\ FreshEntry =>
                /\ ~ret'.val.requested
                /\ ~ret'.val.threw
                /\ ret'.val.news = cache[CacheKey].data
                /\ cache' = cache
                /\ requests' = requests
          /\ ~FreshEntry =>
                /\ ret'.val.requested
                /\ requests' # {}
                /\ ret'.val.ok =>
                      /\ ~ret'.val.threw
                      /\ MapHas(cache', CacheKey)
                      /\ cache'[CacheKey] = [data |-> ret'.val.news, timestamp |-> now]
    ]_vars

\* C24 witness: articles fetched at time 0 were 5 minutes old, getLatestNews
\* has fetched again, and the cache holds the new articles, stamped with the
\* time of that fetch.
C24_Witness ==
    /\ ret.op = "getLatestNews"
    /\ ret.val.requested /\ ret.val.ok
    /\ now = 5 * 60 * 1000
    /\ cache[CacheKey] = [data |-> ret.val.news, timestamp |-> now]
    /\ Len(ret.val.news) = 1

\* C25: when the fetch fails, getLatestNews returns the most recently cached
\* articles even if they have expired, leaves the cached articles and their
\* timestamp unchanged, and throws only if the cache holds no articles (no
\* fetch has succeeded since the cache was last empty).
C25_StaleOnFailure ==
    [][(ret'.op = "getLatestNews" /\ ret'.val.requested /\ ~ret'.val.ok) =>
          /\ cache' = cache
          /\ IF MapHas(cache, CacheKey)
             THEN ~ret'.val.threw /\ ret'.val.news = cache[CacheKey].data
             ELSE ret'.val.threw
    ]_vars

\* C25 witness: the fetch failed while the cached articles were 5 minutes
\* old, and getLatestNews returned those articles without throwing.
C25_Witness ==
    /\ ret.op = "getLatestNews"
    /\ ret.val.requested /\ ~ret.val.ok /\ ~ret.val.threw
    /\ MapHas(cache, CacheKey)
    /\ now - cache[CacheKey].timestamp >= 5 * 60 * 1000
    /\ ret.val.news = cache[CacheKey].data
    /\ Len(ret.val.news) >= 1

----------------------------------------------------------------------------
(* Properties of the two services together, checked under SpecServices *)

\* what a Map holds for key k: the value in a one-element tuple, or nothing
EntryOf(m, k) == IF MapHas(m, k) THEN <<m[k]>> ELSE <<>>

PerUserOps ==
    {"isRateLimited", "recordRequest", "getRemainingRequests", "getTimeUntilReset",
     "updateConversationHistory", "clearConversationHistory"}

ReadOnlyOps ==
    {"getRemainingRequests", "getTimeUntilReset", "getStats",
     "getConversationHistory", "getConversationStats"}

\* C30: an operation of the RateLimiter or of the conversation history on
\* user U leaves the stored timestamps and the history of every other user
\* unchanged; getRemainingRequests, getTimeUntilReset, getStats and
\* getConversationHistory change no stored state; the sweep is the only
\* operation that touches several users, it removes only expired timestamps
\* and leaves the histories alone.
C30_OtherUsersUntouched ==
    [][ /\ ret'.op \in PerUserOps =>
            \A v \in Users \ {ret'.user} :
                /\ EntryOf(userRequests', v) = EntryOf(userRequests, v)
                /\ EntryOf(conversationHistory', v) = EntryOf(conversationHistory, v)
        /\ ret'.op \in ReadOnlyOps =>
            /\ userRequests' = userRequests
            /\ conversationHistory' = conversationHistory
        /\ ret'.op = "cleanup" =>
            /\ conversationHistory' = conversationHistory
            /\ \A v \in Users :
                  MapGetOr(userRequests', v, <<>>) = Younger(MapGetOr(userRequests, v, <<>>))
    ]_vars

\* C30 witness: user u1's history was cleared while u2 has a stored history
\* and a stored timestamp.
C30_Witness ==
    /\ ret = Call("clearConversationHistory", "u1", TRUE)
    /\ ~MapHas(conversationHistory, "u1")
    /\ MapGetOr(conversationHistory, "u2", <<>>) # <<>>
    /\ MapGetOr(userRequests, "u2", <<>>) # <<>>

====
